---- MODULE Spec2Model ----
(***************************************************************************)
(* Model of the two-pass PGN annotator (src/core.py): the batch driver     *)
(* run_annotate / run_annotate_async, the per-game pipeline analyze_game,  *)
(* the move judge judge_move and the annotation classifier.                *)
(*                                                                         *)
(* Python values are modelled as records with a "kind" field, so that      *)
(* None, strings, judgment dictionaries and error dictionaries can sit in  *)
(* the same attribute (node.comment) as they do in the program.            *)
(***************************************************************************)
EXTENDS Integers, Sequences, FiniteSets, TLC

\* ------------------------------------------------------------------ bounds
MaxGames == 2        \* games read from the input file in one run
MaxPly == 2          \* half-moves on the main line of a game

\* ------------------------------------------------------- program constants
NEEDS_ANNOTATION_THRESHOLD == 1      \* 1.0 percentage point
MAX_CP_SCORE == 20000
MAX_CPL == 2000
SHORT_PV_LEN == 10
BLUNDER == -200
MISTAKE == -100
DUBIOUS == -30
NAG_BLUNDER == 4
NAG_MISTAKE == 2
NAG_DUBIOUS_MOVE == 6
NAG_BRILLIANT == 9
NAG_GOOD == 7

WHITE == TRUE
BLACK == FALSE

\* ------------------------------------------------------------ Python values
None == [kind |-> "none"]
\* A Python str: the format text and the numbers rendered into it.
Str(fmt) == [kind |-> "str", fmt |-> fmt, sign |-> "", n |-> 0, frac |-> 0]
SkipMarker == Str("Skipped due to engine error.")
ErrTerminated == [kind |-> "dict", error |-> "Engine terminated during analysis"]
ErrNoPV == [kind |-> "dict", error |-> "Engine found no primary variation (PV)"]

\* Python truthiness of a value stored in node.comment
Truthy(v) == v.kind # "none"

\* Python  key in v : dictionary membership; on a string it is a substring
\* test, and no key name used by the program occurs in SkipMarker.
HasKey(v, k) == v.kind = "dict" /\ k \in DOMAIN v

\* ------------------------------------------------------------ engine scores
\* chess.engine.PovScore: a score relative to the side `turn`.
Cp(n) == [kind |-> "cp", v |-> n]
Mate(n) == [kind |-> "mate", v |-> n]
NoScore == [kind |-> "none", v |-> 0]

Negate(s) == IF s.kind = "none" THEN s ELSE [s EXCEPT !.v = 0 - s.v]

\* result.get("score").pov(color)
Pov(result, color) == IF color = result.turn THEN result.score ELSE Negate(result.score)

Abs(n) == IF n < 0 THEN 0 - n ELSE n

\* eval_numeric: [raised, val]; raised models the exception on a missing score
eval_numeric_adds_distance(result, board_turn) ==
  LET score == Pov(result, board_turn) IN
  IF score.kind = "none" THEN [raised |-> TRUE, val |-> 0]
  ELSE IF score.kind = "mate" THEN
         IF score.v > 0 THEN [raised |-> FALSE, val |-> MAX_CP_SCORE + Abs(score.v)]
         ELSE IF score.v < 0 THEN [raised |-> FALSE, val |-> 0 - (MAX_CP_SCORE + Abs(score.v))]
         ELSE [raised |-> FALSE, val |-> 0]
  ELSE [raised |-> FALSE, val |-> score.v]

eval_numeric(result, board_turn) ==
  LET score == Pov(result, board_turn) IN
  IF score.kind = "none" THEN [raised |-> TRUE, val |-> 0]
  ELSE IF score.kind = "mate" THEN
         IF score.v > 0 THEN [raised |-> FALSE, val |-> MAX_CP_SCORE - Abs(score.v)]
         ELSE IF score.v < 0 THEN [raised |-> FALSE, val |-> 0 - (MAX_CP_SCORE - Abs(score.v))]
         ELSE [raised |-> FALSE, val |-> 0]
  ELSE [raised |-> FALSE, val |-> score.v]

\* eval_human: the display string, as the fields that determine it.
\*   "Mate in {n}" | "Mate" | '{:+.2f}'.format(cp / 100) | "No score available"
eval_human(white_to_move, result) ==
  LET score_for_white == Pov(result, WHITE) IN
  IF result.score.kind = "none" THEN Str("No score available")
  ELSE IF score_for_white.kind = "mate" THEN
         \* moves_to_mate = abs(dtm) / 2;  >= 1  ->  int(moves_to_mate)
         IF Abs(score_for_white.v) >= 2
         THEN [Str("Mate in {}") EXCEPT !.n = Abs(score_for_white.v) \div 2]
         ELSE Str("Mate")
  ELSE [kind |-> "str", fmt |-> "{:+.2f}",
        sign |-> IF score_for_white.v < 0 THEN "-" ELSE "+",
        n |-> Abs(score_for_white.v) \div 100,
        frac |-> Abs(score_for_white.v) % 100]

\* --------------------------------------------------------- winning chances
\* winning_chances(cp) = 50 + 50 * (2 / (1 + exp(-0.004 * cp)) - 1), evaluated
\* in IEEE double arithmetic as the program does and tabulated in units of
\* 10^-7 percentage points (rounded to nearest) over EvalDomain.  On
\* EvalDomain the table orders and separates values exactly as the doubles
\* do; the doubles saturate at 0.0 and 100.0 for the mate scores.
WCTable ==
  { <<-19999, 0>>, <<-19997, 0>>, <<-2001, 334012>>, <<-2000, 335350>>,
    <<-300, 231475217>>, <<-250, 268941421>>, <<-201, 309170531>>,
    <<-200, 310025519>>, <<-101, 400351677>>, <<-100, 401312340>>,
    <<-51, 449176135>>, <<-50, 450166003>>, <<-31, 469039660>>,
    <<-30, 470035948>>, <<-11, 489001774>>, <<-10, 490001333>>,
    <<-1, 499000001>>, <<0, 500000000>>, <<1, 500999999>>,
    <<10, 509998667>>, <<11, 510998226>>, <<30, 529964052>>,
    <<31, 530960340>>, <<50, 549833997>>, <<51, 550823865>>,
    <<100, 598687660>>, <<101, 599648323>>, <<200, 689974481>>,
    <<201, 690829469>>, <<250, 731058579>>, <<300, 768524783>>,
    <<2000, 999664650>>, <<2001, 999665988>>,
    <<19997, 1000000000>>, <<19999, 1000000000>> }

EvalDomain == { p[1] : p \in WCTable }

\* winning_chances with the sign of the exponent dropped
winning_chances_mirrored(centipawns) ==
  (CHOOSE p \in WCTable : p[1] = 0 - centipawns)[2]

winning_chances(centipawns) == (CHOOSE p \in WCTable : p[1] = centipawns)[2]

\* one percentage point in the unit of WCTable
PercentagePoint == 10000 * 1000

\* ---------------------------------------------------- annotation classifier
needs_annotation_no_abs(judgment) ==
  IF ~(Truthy(judgment) /\ HasKey(judgment, "besteval") /\ HasKey(judgment, "playedeval"))
  THEN FALSE
  ELSE LET best == winning_chances(judgment.besteval)
           played == winning_chances(judgment.playedeval)
           delta == best - played
       IN delta > NEEDS_ANNOTATION_THRESHOLD * PercentagePoint \/ best > played

needs_annotation_threshold_only(judgment) ==
  IF ~(Truthy(judgment) /\ HasKey(judgment, "besteval") /\ HasKey(judgment, "playedeval"))
  THEN FALSE
  ELSE LET best == winning_chances(judgment.besteval)
           played == winning_chances(judgment.playedeval)
           delta == Abs(best - played)
       IN delta > NEEDS_ANNOTATION_THRESHOLD * PercentagePoint

needs_annotation_truthy_only(judgment) ==
  IF ~Truthy(judgment) THEN FALSE
  ELSE IF ~(HasKey(judgment, "besteval") /\ HasKey(judgment, "playedeval")) THEN TRUE
  ELSE LET best == winning_chances(judgment.besteval)
           played == winning_chances(judgment.playedeval)
           delta == Abs(best - played)
       IN delta > NEEDS_ANNOTATION_THRESHOLD * PercentagePoint \/ best > played

needs_annotation(judgment) ==
  IF ~(Truthy(judgment) /\ HasKey(judgment, "besteval") /\ HasKey(judgment, "playedeval"))
  THEN FALSE
  ELSE LET best == winning_chances(judgment.besteval)
           played == winning_chances(judgment.playedeval)
           delta == Abs(best - played)
       IN delta > NEEDS_ANNOTATION_THRESHOLD * PercentagePoint \/ best > played

get_nags_non_strict(judgment) ==
  IF HasKey(judgment, "besteval") /\ HasKey(judgment, "playedeval")
  THEN LET delta == judgment.playedeval - judgment.besteval IN
       IF delta <= BLUNDER THEN {NAG_BLUNDER}
       ELSE IF delta <= MISTAKE THEN {NAG_MISTAKE}
       ELSE IF delta <= DUBIOUS THEN {NAG_DUBIOUS_MOVE}
       ELSE IF 2 * judgment.playedeval > 2 * judgment.besteval + 1 THEN {NAG_BRILLIANT}
       ELSE IF judgment.playedeval > judgment.besteval THEN {NAG_GOOD}
       ELSE {}
  ELSE {}

get_nags(judgment) ==
  IF HasKey(judgment, "besteval") /\ HasKey(judgment, "playedeval")
  THEN LET delta == judgment.playedeval - judgment.besteval IN
       IF delta < BLUNDER THEN {NAG_BLUNDER}
       ELSE IF delta < MISTAKE THEN {NAG_MISTAKE}
       ELSE IF delta < DUBIOUS THEN {NAG_DUBIOUS_MOVE}
       \* playedeval > besteval + 0.5, on integers
       ELSE IF 2 * judgment.playedeval > 2 * judgment.besteval + 1 THEN {NAG_BRILLIANT}
       ELSE IF judgment.playedeval > judgment.besteval THEN {NAG_GOOD}
       ELSE {}
  ELSE {}

\* ------------------------------------------------------------- move judge
\* Main-line moves are named "g" (the move of the game at that ply); "e" is
\* any other legal move of the position.
Moves == {"g", "e"}

\* What one engine.analyse() call can answer: the process exits
\* (EngineTerminatedError), a protocol error (another EngineError), or an
\* info dictionary with a principal variation and a score, each of which an
\* engine may leave out.  depth and nodes are copied through by judge_move
\* and only rendered, and are left out.
Terminated(turn) == [outcome |-> "terminated", pv |-> <<>>, score |-> NoScore, turn |-> turn]
ProtocolError(turn) == [outcome |-> "error", pv |-> <<>>, score |-> NoScore, turn |-> turn]
Info(pv, score, turn) == [outcome |-> "result", pv |-> pv, score |-> score, turn |-> turn]

\* How a call ends: it returns a value, raises, or is suspended at the second
\* analyse with the judgment built so far.
Return(v) == [tag |-> "return", value |-> v, exc |-> ""]
Raise(e) == [tag |-> "raise", value |-> None, exc |-> e]
Await(v) == [tag |-> "await", value |-> v, exc |-> ""]

\* judge_move up to its second await (lines 408-458)
judge_first_always_second(board_turn, played_move, r) ==
  IF r.outcome = "terminated" THEN Return(ErrTerminated)
  ELSE IF r.outcome = "error" THEN Raise("EngineError")
  ELSE IF r.pv = <<>> THEN Return(ErrNoPV)
  ELSE LET be == eval_numeric(r, board_turn) IN
       IF be.raised THEN Raise("AttributeError")
       ELSE Await([kind |-> "dict", bestmove |-> r.pv[1], besteval |-> be.val,
                   pv |-> r.pv, bestcomment |-> eval_human(board_turn, r)])

judge_first(board_turn, played_move, r) ==
  IF r.outcome = "terminated" THEN Return(ErrTerminated)
  ELSE IF r.outcome = "error" THEN Raise("EngineError")
  ELSE IF r.pv = <<>> THEN Return(ErrNoPV)
  ELSE LET be == eval_numeric(r, board_turn) IN
       IF be.raised THEN Raise("AttributeError")
       ELSE LET j == [kind |-> "dict", bestmove |-> r.pv[1], besteval |-> be.val,
                      pv |-> r.pv, bestcomment |-> eval_human(board_turn, r)]
            IN IF played_move = j.bestmove
               THEN Return([kind |-> "dict", bestmove |-> j.bestmove,
                            besteval |-> j.besteval, pv |-> j.pv,
                            bestcomment |-> j.bestcomment,
                            playedeval |-> j.besteval,
                            playedcomment |-> eval_human(board_turn, r)])
               ELSE Await(j)

\* judge_move from the answer to its second analyse (lines 454-468); the
\* second call is outside the try block of the first.
judge_second(board_turn, j, r) ==
  IF r.outcome = "terminated" THEN Raise("EngineTerminatedError")
  ELSE IF r.outcome = "error" THEN Raise("EngineError")
  ELSE LET pe == eval_numeric(r, r.turn) IN
       IF pe.raised THEN Raise("AttributeError")
       ELSE Return([kind |-> "dict", bestmove |-> j.bestmove,
                    besteval |-> j.besteval, pv |-> j.pv,
                    bestcomment |-> j.bestcomment,
                    playedeval |-> pe.val,
                    playedcomment |-> eval_human(board_turn, r)])

\* an except clause that catches no engine error
IsEngineError_never(e) == FALSE

\* EngineTerminatedError is a subclass of EngineError
IsEngineError(e) == e \in {"EngineError", "EngineTerminatedError"}

\* debug_print evaluates judgment["bestmove"] for its log arguments
debug_print_raises(judgment) == ~HasKey(judgment, "bestmove")

\* ---------------------------------------------------------------- game tree
\* The parsed game: main-line nodes 0..nply (0 is the root), node i reached by
\* ply i.  A node holds its move, comment, glyphs and its ordered children
\* (node.variations): a child is the next main-line node (main = its index)
\* or a side line (main = 0) given by its moves and the comment at its end.
MainChild(i) == [main |-> i, line |-> <<"g">>, comment |-> None]
SideLine(moves, c) == [main |-> 0, line |-> moves, comment |-> c]

ParsedTree(g) ==
  [i \in 0..g.nply |->
     [move |-> IF i = 0 THEN "" ELSE "g",
      comment |-> IF g.dirty THEN Str("annotation in the input") ELSE None,
      nags |-> IF g.dirty /\ i > 0 THEN {NAG_MISTAKE} ELSE {},
      variations |-> IF i = g.nply THEN <<>>
                     ELSE IF g.dirty THEN <<MainChild(i + 1), SideLine(<<"e">>, None)>>
                     ELSE <<MainChild(i + 1)>>]]

\* side to move in the position of node i (White begins)
Turn(i) == IF i % 2 = 0 THEN WHITE ELSE BLACK

\* game.end(): follow the first child; -1 when that leaves the main line
RECURSIVE EndFrom(_, _)
EndFrom(t, i) ==
  IF t[i].variations = <<>> THEN i
  ELSE IF t[i].variations[1].main = 0 THEN -1
  ELSE EndFrom(t, t[i].variations[1].main)

game_end(t) == EndFrom(t, 0)

\* checkgame
checkgame_ignores_errors(g, t) == game_end(t) # 0

checkgame(g, t) == ~g.errors /\ game_end(t) # 0

\* clean_game: every node from the end up to the root loses its comment, its
\* glyphs and every child that is not its first child
clean_game_skips_root(t) ==
  [i \in DOMAIN t |->
     IF i = 0 THEN t[i]
     ELSE [t[i] EXCEPT !.comment = None, !.nags = {},
                       !.variations = IF t[i].variations = <<>> THEN <<>>
                                      ELSE <<t[i].variations[1]>>]]

clean_game(t) ==
  [i \in DOMAIN t |->
     [t[i] EXCEPT !.comment = None, !.nags = {},
                  !.variations = IF t[i].variations = <<>> THEN <<>>
                                 ELSE <<t[i].variations[1]>>]]

game_length(t) == game_end(t)

\* a search that keeps the earliest classified position
eco_search_earliest(node, matches) ==
  IF matches \cap (1..node) = {} THEN 0
  ELSE CHOOSE m \in matches \cap (1..node) : \A k \in matches \cap (1..node) : m <= k

\* the loop of classify_opening: from `node` back toward the root, the first
\* node whose position is classified (matches: the nodes whose position the
\* opening database holds); the root, 0, when the loop ends without one
RECURSIVE eco_search(_, _)
eco_search(node, matches) ==
  IF node = 0 THEN 0
  ELSE IF node \in matches THEN node
  ELSE eco_search(node - 1, matches)

\* classify_opening.  Returns the tree, the boundary node and the ply count
\* (the nodes the loop passed without a classification).
classify_opening(t, standard, matches) ==
  IF ~standard THEN [tree |-> t, root_node |-> 0, ply_count |-> game_length(t), eco |-> FALSE]
  ELSE LET hit == eco_search(game_end(t), matches) IN
       IF hit = 0 THEN [tree |-> t, root_node |-> 0, ply_count |-> game_end(t), eco |-> FALSE]
       ELSE [tree |-> [t EXCEPT ![hit].comment = Str("{} {}")],
             root_node |-> hit, ply_count |-> game_end(t) - hit, eco |-> TRUE]

\* ---------------------------------------------------- average centipawn loss
Min(a, b) == IF a < b THEN a ELSE b

\* cpl without the ceiling
cpl_uncapped(delta) == delta

cpl(delta) == Min(delta, MAX_CPL)

RECURSIVE SumSeq(_)
SumSeq(q) == IF q = <<>> THEN 0 ELSE Head(q) + SumSeq(Tail(q))

\* round(acpl(cpl_list)): the mean rounded half to even, 0 for an empty list
round_acpl(cpl_list) ==
  IF cpl_list = <<>> THEN 0
  ELSE LET num == SumSeq(cpl_list)
           den == Len(cpl_list)
           q == num \div den
           r == num - q * den
       IN IF 2 * r < den THEN q
          ELSE IF 2 * r > den THEN q + 1
          ELSE IF q % 2 = 0 THEN q ELSE q + 1

\* the cpl list of one side over the nodes root_node+1 .. end, last ply first
RECURSIVE CplList(_, _, _, _)
CplList(t, node, root_node, white) ==
  IF node = root_node THEN <<>>
  ELSE LET j == t[node].comment
           rest == CplList(t, node - 1, root_node, white)
       IN IF Truthy(j) /\ HasKey(j, "besteval") /\ HasKey(j, "playedeval")
             /\ (Turn(node) = BLACK) = white
          THEN <<cpl(j.besteval - j.playedeval)>> \o rest
          ELSE rest

\* add_acpl that writes no header
add_acpl_none(h, t, root_node) == h

add_acpl(h, t, root_node) ==
  [h EXCEPT !.acpl = TRUE,
            !.white = round_acpl(CplList(t, game_end(t), root_node, TRUE)),
            !.black = round_acpl(CplList(t, game_end(t), root_node, FALSE))]

\* ------------------------------------------------------------- annotation
truncate_pv_always(ends_game, pv) == SubSeq(pv, 1, Min(Len(pv), SHORT_PV_LEN))

\* truncate_pv; ends_game: the game is over after the whole pv is played
truncate_pv(ends_game, pv) ==
  IF ends_game THEN pv ELSE SubSeq(pv, 1, Min(Len(pv), SHORT_PV_LEN))

\* prev_node.add_line(moves): a new child holding the line is appended to
\* the children of the node
add_line(variations, moves) == Append(variations, SideLine(moves, None))

\* var_end_comment for a position in which the game goes on: "{score}/{depth}"
var_end_comment(judgment) ==
  [kind |-> "str", fmt |-> "{}/{}", sign |-> judgment.bestcomment.sign,
   n |-> judgment.bestcomment.n, frac |-> judgment.bestcomment.frac,
   score |-> judgment.bestcomment.fmt]

\* index of the first child of a node that begins with move m (node.variation)
FirstWith(children, m) ==
  CHOOSE k \in 1..Len(children) :
    /\ children[k].line[1] = m
    /\ \A l \in 1..(k - 1) : children[l].line[1] # m

\* add_annotation(node, judgment) on the tree.  The principal variations of
\* this model are single moves after which the game goes on.
add_annotation_promotes(t, node, judgment) ==
  LET prev_node == node - 1
      t1 == IF judgment.bestmove # t[node].move
            THEN [t EXCEPT ![node].comment = judgment.playedcomment] ELSE t
      variation == truncate_pv(FALSE, judgment.pv)
      t2 == [t1 EXCEPT ![prev_node].variations = <<SideLine(variation, None)>> \o @]
      k == FirstWith(t2[prev_node].variations, judgment.pv[1])
      child == t2[prev_node].variations[k]
      t3 == IF child.main = 0
            THEN [t2 EXCEPT ![prev_node].variations[k].comment = var_end_comment(judgment)]
            ELSE [t2 EXCEPT ![EndFrom(t2, child.main)].comment = var_end_comment(judgment)]
  IN [t3 EXCEPT ![node].nags = get_nags(judgment)]

add_annotation(t, node, judgment) ==
  LET prev_node == node - 1
      t1 == IF judgment.bestmove # t[node].move
            THEN [t EXCEPT ![node].comment = judgment.playedcomment] ELSE t
      variation == truncate_pv(FALSE, judgment.pv)
      t2 == [t1 EXCEPT ![prev_node].variations = Append(@, SideLine(variation, None))]
      k == FirstWith(t2[prev_node].variations, judgment.pv[1])
      child == t2[prev_node].variations[k]
      t3 == IF child.main = 0
            THEN [t2 EXCEPT ![prev_node].variations[k].comment = var_end_comment(judgment)]
            ELSE [t2 EXCEPT ![EndFrom(t2, child.main)].comment = var_end_comment(judgment)]
  IN [t3 EXCEPT ![node].nags = get_nags(judgment)]

\* str(x) as written to the output file
PyStr(v) == IF v.kind = "none" THEN Str("None") ELSE v

\* ------------------------------------------------------------ time budget
\* Times are seconds.  For a game time of whole minutes the total, the Pass1
\* and the Pass2 budget are whole numbers, which the program's floating-point
\* arithmetic computes exactly; a time per move is kept as the fraction
\* num / den.
Frac(num, den) == [num |-> num, den |-> den]

\* the fraction f equals a / b
FracEq(f, a, b) == f.num * b = a * f.den

get_total_budget(arg_gametime) == arg_gametime * 60

get_pass1_budget_fifth(total_budget) == total_budget \div 5

get_pass1_budget(total_budget) == total_budget \div 10

get_pass2_budget(total_budget, pass1_budget) == total_budget - pass1_budget

\* the division by zero is caught and gives 60
get_time_per_move(pass_budget, ply_count) ==
  IF ply_count = 0 THEN Frac(60, 1) ELSE Frac(pass_budget, ply_count)

\* analyze_game, lines 880-884: the division by zero is caught and leaves
\* time_per_move as Pass1 set it
pass2_time_per_move(pass2_budget, error_count, time_per_move) ==
  IF error_count = 0 THEN time_per_move ELSE Frac(pass2_budget, error_count)

\* ------------------------------------------------------ analyze_game steps
\* Pass2, lines 902-905: what the re-judgment does to the node
pass2_commit_unchecked(t, node, judgment) ==
  IF HasKey(judgment, "bestmove") THEN add_annotation(t, node, judgment)
  ELSE [t EXCEPT ![node].comment = None]

\* a Pass2 that leaves the node alone when the re-judgment is not flagged
pass2_commit_keeps(t, node, judgment) ==
  IF needs_annotation(judgment) THEN add_annotation(t, node, judgment)
  ELSE t

pass2_commit(t, node, judgment) ==
  IF needs_annotation(judgment) THEN add_annotation(t, node, judgment)
  ELSE [t EXCEPT ![node].comment = None]

\* valid_engine
valid_engine(engine_path) ==
  ~(engine_path = "Niet Gespecificeerd" \/ engine_path = "" \/ engine_path = "Not Specified")

\* run_annotate without its "except Exception" clause returning False
run_annotate_reports_success(e) ==
  IF e = "KeyboardInterrupt" THEN "None" ELSE "True"

\* run_annotate: what the wrapper returns for the exception that left
\* run_annotate_async ("" for none)
run_annotate(e) ==
  IF e = "" THEN "True" ELSE IF e = "KeyboardInterrupt" THEN "None" ELSE "False"

\* ----------------------------------------------------------------- inputs
\* Scores the engine reports in the batch model (relative to the side to move)
RunScores == {Cp(0), Cp(30)}

EnginePaths == {"stockfish", "Not Specified", "missing", "not executable"}

\* A game of the input file: whether the parser recorded errors, its number
\* of plies, whether it passes the filter, whether it already carries
\* annotations, and whether it is standard chess.
GameInputs ==
  [errors : BOOLEAN, nply : 0..MaxPly, passes : BOOLEAN, dirty : BOOLEAN,
   standard : BOOLEAN]

NoGame == [errors |-> FALSE, nply |-> 0, passes |-> FALSE, dirty |-> FALSE,
           standard |-> TRUE]

FirstAnswers(turn) ==
  {Terminated(turn), ProtocolError(turn), Info(<<>>, NoScore, turn)}
    \cup {Info(<<m>>, sc, turn) : m \in Moves, sc \in RunScores \cup {NoScore}}

SecondAnswers(turn) ==
  {Terminated(turn), ProtocolError(turn)}
    \cup {Info(<<>>, sc, turn) : sc \in RunScores \cup {NoScore}}

\* a dead process answers every request with EngineTerminatedError
Answers(eng, all, turn) == IF eng = "terminated" THEN {Terminated(turn)} ELSE all

NoHeaders == [eco |-> FALSE, acpl |-> FALSE, white |-> 0, black |-> 0, annotator |-> FALSE]
Unbound == [kind |-> "unbound"]
NoTree == [i \in {0} |-> [move |-> "", comment |-> None, nags |-> {}, variations |-> <<>>]]

\* ------------------------------------------------------------------ state
VARIABLES
  pc,              \* position in run_annotate_async / analyze_game
  enginePath,      \* engine_path argument
  outWritable,     \* whether the output file can be opened for writing
  engine,          \* "none" | "ready" | "terminated" (died) | "quit" (got quit)
  outfile,         \* [truncations, records]: the output file
  processed_count,
  game,            \* the game read in this iteration
  tree, headers,   \* its node tree and the headers the pipeline writes
  root_node, ply_count, error_count, node,
  judgment,        \* judge_move's judgment while it awaits the second analyse
  analyzed_game,   \* the variable of run_annotate_async
  exc,             \* exception propagating out of run_annotate_async ("" none)
  result,          \* what run_annotate returned ("" while running)
  \* observations of the run, read by the properties only
  jm,              \* the current or last judge_move call
  flag1, flag2,    \* per node: needs_annotation of the Pass1 / Pass2 judgment
                   \* ("skipped" in flag1: Pass1 stored the skip marker)
  commit,          \* per node: the Pass2 judgment that was committed
  reqOnTerminated, \* an analyse request was issued to a dead session
  gameReqs,        \* analyse requests issued for the current game
  outcomes,        \* per game read: "filtered" | "aborted" | "completed"
  judged,          \* per pass and node: judge_move calls begun for its ply
  pass1Reqs,       \* analyse requests issued for the current game in Pass1
  ecoMatches,      \* main-line nodes whose position the opening database holds
  \* the classifier applied to one judgment (specification SpecClassifier)
  cjudgment,       \* the judgment given to needs_annotation
  cflag,           \* "idle" | "pending" | "True" | "False": what it returned
  \* get_nags applied to one judgment (specification SpecSeverity)
  sjudgment,       \* the judgment given to get_nags
  snags,           \* [state: "idle" | "pending" | "returned", nags]
  \* eval_numeric and eval_human applied to two engine results
  \* (specification SpecEval)
  eresults,        \* the two results
  eturn,           \* the colour argument (board_turn / white_to_move)
  enumeric,        \* [state, out]: what eval_numeric gave for each result
  ehuman,          \* [state, out]: what eval_human gave for each result
  \* the time budget of analyze_game (specification SpecBudget)
  bargs,           \* [arg_gametime, ply_count, error_count]
  btime,           \* [pc, budget, pass1_budget, pass2_budget, time_per_move]
  \* one record each for the other functions checked on their own
  trunc,           \* truncate_pv / add_line (specification SpecTruncate)
  seg,             \* pgn_text_iterator (specification SpecSegment)
  filt,            \* matches_filter (specification SpecFilter)
  wrap,            \* change_nags (specification SpecWrap)
  chances,         \* winning_chances (specification SpecChances)
  acp,             \* add_acpl (specification SpecAcpl)
  jdg,             \* judge_move on one position (specification SpecJudge)
  sess,            \* engine sessions of concurrent runs (specification SpecSessions)
  gui,             \* the analysis workers of a GameListView (specification SpecWorkers)
  con              \* ConsoleRedirect (specification SpecConsole)

runVars == <<pc, enginePath, outWritable, engine, outfile, processed_count,
             game, tree, headers, root_node, ply_count, error_count, node,
             judgment, analyzed_game, exc, result>>
obsVars == <<jm, flag1, flag2, commit, reqOnTerminated, gameReqs, outcomes,
             judged, pass1Reqs, ecoMatches>>
sevVars == <<sjudgment, snags>>
evalVars == <<eresults, eturn, enumeric, ehuman>>
budVars == <<bargs, btime>>
extVars == <<acp, jdg, sess, gui, con>>
auxVars == <<trunc, seg, filt, wrap, chances, extVars>>
clsVars == <<cjudgment, cflag, sevVars, evalVars, budVars, auxVars>>

JmIdle == [state |-> "idle", n |-> 0, same |-> "unknown", scored |-> FALSE,
           eq |-> FALSE, pass |-> 0, exc |-> "", err |-> "", term |-> FALSE]
JmAwaiting(same, pass) ==
  [state |-> "awaiting", n |-> 1, same |-> same, scored |-> TRUE,
   eq |-> FALSE, pass |-> pass, exc |-> "", err |-> "", term |-> FALSE]
NoFlags == [i \in 1..MaxPly |-> "none"]
NoCommits == [i \in 1..MaxPly |-> None]
NoJudged == [p \in 1..2 |-> [i \in 1..MaxPly |-> 0]]

RunState0 ==
  /\ pc = "start"
  /\ enginePath \in EnginePaths
  /\ outWritable \in BOOLEAN
  /\ engine = "none"
  /\ outfile = [truncations |-> 0, records |-> <<>>]
  /\ processed_count = 0
  /\ game = NoGame
  /\ tree = NoTree
  /\ headers = NoHeaders
  /\ root_node = 0 /\ ply_count = 0 /\ error_count = 0 /\ node = 0
  /\ judgment = None
  /\ analyzed_game = Unbound
  /\ exc = "" /\ result = ""
  /\ jm = JmIdle /\ flag1 = NoFlags /\ flag2 = NoFlags /\ commit = NoCommits
  /\ reqOnTerminated = FALSE /\ gameReqs = 0 /\ outcomes = <<>>
  /\ judged = NoJudged /\ pass1Reqs = 0 /\ ecoMatches = {}

ClassifierIdle == cjudgment = None /\ cflag = "idle"
SeverityIdle == sjudgment = None /\ snags = [state |-> "idle", nags |-> {}]
EvalIdle ==
  /\ eresults = <<>> /\ eturn = WHITE
  /\ enumeric = [state |-> "idle", out |-> <<>>]
  /\ ehuman = [state |-> "idle", out |-> <<>>]

NoBudget == [pc |-> "idle", budget |-> 0, pass1_budget |-> 0, pass2_budget |-> 0,
             time_per_move |-> Frac(0, 1)]

BudgetIdle ==
  /\ bargs = [arg_gametime |-> 0, ply_count |-> 0, error_count |-> 0]
  /\ btime = NoBudget

Idle == [state |-> "idle"]

TruncIdle == trunc = Idle
SegIdle == seg = Idle
FiltIdle == filt = Idle
WrapIdle == wrap = Idle
ChancesIdle == chances = Idle
AcpIdle == acp = Idle
JdgIdle == jdg = Idle
SessIdle == sess = Idle
GuiIdle == gui = Idle
ConIdle == con = Idle
ExtIdle == AcpIdle /\ JdgIdle /\ SessIdle /\ GuiIdle /\ ConIdle
AuxIdle == TruncIdle /\ SegIdle /\ FiltIdle /\ WrapIdle /\ ChancesIdle /\ ExtIdle

RunInit ==
  RunState0 /\ ClassifierIdle /\ SeverityIdle /\ EvalIdle /\ BudgetIdle /\ AuxIdle

\* the batch run has not begun and the functions of the earlier
\* specifications are not in use
RunIdle ==
  /\ RunState0 /\ enginePath = "stockfish" /\ outWritable
  /\ ClassifierIdle /\ SeverityIdle /\ EvalIdle /\ BudgetIdle

runIdleVars == <<runVars, obsVars, cjudgment, cflag, sevVars, evalVars, budVars>>

\* none of the functions checked on their own before SpecAcpl is in use
CoreIdle == RunIdle /\ TruncIdle /\ SegIdle /\ FiltIdle /\ WrapIdle /\ ChancesIdle
coreVars == <<runIdleVars, trunc, seg, filt, wrap, chances>>

\* ----------------------------------------------------------------- actions
gameState == <<game, tree, headers, root_node, ply_count, error_count, node, judgment>>

\* Leave run_annotate_async by exception e: control passes to its finally block
Propagate(e) == pc' = "finally" /\ exc' = e

\* run_annotate_async, lines 1137-1147: start the engine, truncate the output
StartRun ==
  /\ pc = "start"
  /\ IF valid_engine(enginePath) /\ enginePath = "missing"
     THEN Propagate("FileNotFoundError") /\ UNCHANGED <<engine, outfile>>
     ELSE IF valid_engine(enginePath) /\ enginePath = "not executable"
     THEN Propagate("PermissionError") /\ UNCHANGED <<engine, outfile>>
     ELSE /\ engine' = IF valid_engine(enginePath) THEN "ready" ELSE "none"
          /\ IF outWritable
             THEN /\ outfile' = [outfile EXCEPT !.truncations = @ + 1, !.records = <<>>]
                  /\ pc' = "loop" /\ UNCHANGED exc
             ELSE Propagate("PermissionError") /\ UNCHANGED outfile
  /\ UNCHANGED <<enginePath, outWritable, processed_count, analyzed_game, result>>
  /\ UNCHANGED gameState /\ UNCHANGED obsVars
  /\ UNCHANGED clsVars

\* lines 1149-1169: the iterator yields a game; filter; enter analyze_game
ReadGame ==
  /\ pc = "loop"
  /\ processed_count < MaxGames
  /\ \E g \in GameInputs :
       /\ game' = g
       /\ processed_count' = processed_count + 1
       /\ IF ~g.passes
          THEN /\ pc' = "loop"
               /\ outcomes' = Append(outcomes, "filtered")
               /\ UNCHANGED <<tree, headers, exc, flag1, flag2, commit>>
          ELSE IF valid_engine(enginePath)
          THEN /\ pc' = "parsecheck"
               /\ tree' = ParsedTree(g)
               /\ headers' = NoHeaders
               /\ flag1' = NoFlags /\ flag2' = NoFlags /\ commit' = NoCommits
               /\ UNCHANGED <<outcomes, exc>>
          ELSE \* analyzed_game was never bound: print(analyzed_game) raises
               /\ Propagate("UnboundLocalError")
               /\ outcomes' = Append(outcomes, "aborted")
               /\ UNCHANGED <<tree, headers, flag1, flag2, commit>>
  /\ root_node' = 0 /\ ply_count' = 0 /\ error_count' = 0 /\ node' = 0
  /\ judgment' = None
  /\ jm' = JmIdle /\ gameReqs' = 0
  /\ judged' = NoJudged /\ pass1Reqs' = 0 /\ ecoMatches' = {}
  /\ UNCHANGED <<enginePath, outWritable, engine, outfile, analyzed_game, result,
                 reqOnTerminated>>
  /\ UNCHANGED clsVars

\* the iterator is exhausted: leave the loop
EndOfInput ==
  /\ pc = "loop"
  /\ pc' = "quit"
  /\ UNCHANGED <<enginePath, outWritable, engine, outfile, processed_count,
                 analyzed_game, exc, result>>
  /\ UNCHANGED gameState /\ UNCHANGED obsVars
  /\ UNCHANGED clsVars

\* analyze_game, lines 802-804
ParseCheck ==
  /\ pc = "parsecheck"
  /\ IF checkgame(game, tree)
     THEN pc' = "clean" /\ UNCHANGED <<analyzed_game, outcomes>>
     ELSE /\ analyzed_game' = None
          /\ pc' = "write"
          /\ outcomes' = Append(outcomes, "aborted")
  /\ UNCHANGED <<enginePath, outWritable, engine, outfile, processed_count, exc, result>>
  /\ UNCHANGED gameState
  /\ UNCHANGED <<jm, flag1, flag2, commit, reqOnTerminated, gameReqs, judged, pass1Reqs, ecoMatches>>
  /\ UNCHANGED clsVars

\* line 814
CleanGame ==
  /\ pc = "clean"
  /\ tree' = clean_game(tree)
  /\ pc' = "classify"
  /\ UNCHANGED <<enginePath, outWritable, engine, outfile, processed_count,
                 analyzed_game, exc, result>>
  /\ UNCHANGED <<game, headers, root_node, ply_count, error_count, node, judgment>>
  /\ UNCHANGED obsVars
  /\ UNCHANGED clsVars

\* lines 817-832: classify the opening, set up Pass1
ClassifyOpening ==
  /\ pc = "classify"
  /\ \E matches \in SUBSET (1..game_end(tree)) :
       \* a variant game is taken with every position in the database: only
       \* the variant test keeps it from being classified
       /\ game.standard \/ matches = 1..game_end(tree)
       /\ ecoMatches' = matches
       /\ LET c == classify_opening(tree, game.standard, matches) IN
            /\ tree' = c.tree
            /\ root_node' = c.root_node
            /\ ply_count' = c.ply_count
            /\ headers' = [headers EXCEPT !.eco = c.eco]
  /\ error_count' = 0
  /\ node' = game_end(tree)
  /\ pc' = "pass1"
  /\ UNCHANGED <<enginePath, outWritable, engine, outfile, processed_count,
                 analyzed_game, exc, result>>
  /\ UNCHANGED <<game, judgment>>
  /\ UNCHANGED <<jm, flag1, flag2, commit, reqOnTerminated, gameReqs, outcomes, judged, pass1Reqs>>
  /\ UNCHANGED clsVars

\* The engine has been sent an analyse request and answers r
Request(r) ==
  /\ engine' = IF r.outcome = "terminated" THEN "terminated" ELSE engine
  /\ reqOnTerminated' = (reqOnTerminated \/ engine = "terminated")
  /\ gameReqs' = gameReqs + 1

\* the observation of a finished judge_move call
JmDone(o, r, n, same, scored, pass) ==
  [state |-> IF o.tag = "return" THEN "returned" ELSE "raised",
   n |-> n, same |-> same, scored |-> scored,
   eq |-> (o.tag = "return" /\ HasKey(o.value, "playedeval")
           /\ o.value.playedeval = o.value.besteval),
   pass |-> pass,
   exc |-> o.exc,
   err |-> IF o.tag = "return" /\ HasKey(o.value, "error") THEN o.value.error ELSE "",
   term |-> (r.outcome = "terminated")]

SameAs(r, move) == IF r.outcome # "result" \/ r.pv = <<>> THEN "unknown"
                   ELSE IF r.pv[1] = move THEN "yes" ELSE "no"

\* Pass1, lines 838-864, after judge_move has returned or raised (outcome o)
Pass1After(o) ==
  IF o.tag = "return"
  THEN /\ tree' = [tree EXCEPT ![node].comment = o.value]
       /\ error_count' = IF needs_annotation(o.value) THEN error_count + 1 ELSE error_count
       /\ flag1' = [flag1 EXCEPT ![node] = IF needs_annotation(o.value) THEN "yes" ELSE "no"]
       /\ IF debug_print_raises(o.value)
          THEN \* KeyError, caught by "except Exception": return
               /\ analyzed_game' = None /\ pc' = "write" /\ node' = node
               /\ outcomes' = Append(outcomes, "aborted")
          ELSE /\ node' = node - 1 /\ pc' = "pass1"
               /\ UNCHANGED <<analyzed_game, outcomes>>
  ELSE IF IsEngineError(o.exc)
  THEN /\ tree' = [tree EXCEPT ![node].comment = SkipMarker]
       /\ flag1' = [flag1 EXCEPT ![node] = "skipped"]
       /\ node' = node - 1 /\ pc' = "pass1"
       /\ UNCHANGED <<error_count, analyzed_game, outcomes>>
  ELSE /\ analyzed_game' = None /\ pc' = "write"
       /\ outcomes' = Append(outcomes, "aborted")
       /\ UNCHANGED <<tree, error_count, flag1, node>>

\* Pass1: judge_move's first analyse for the ply of `node`
Pass1First ==
  /\ pc = "pass1" /\ node # root_node
  /\ \E r \in Answers(engine, FirstAnswers(Turn(node - 1)), Turn(node - 1)) :
       LET o == judge_first(Turn(node - 1), tree[node].move, r) IN
         /\ Request(r)
         /\ IF o.tag = "await"
            THEN /\ judgment' = o.value
                 /\ pc' = "pass1b"
                 /\ jm' = JmAwaiting(SameAs(r, tree[node].move), 1)
                 /\ UNCHANGED <<tree, error_count, flag1, node, analyzed_game, outcomes>>
            ELSE /\ Pass1After(o)
                 /\ jm' = JmDone(o, r, 1, SameAs(r, tree[node].move), r.score # NoScore, 1)
                 /\ UNCHANGED judgment
  /\ judged' = [judged EXCEPT ![1][node] = @ + 1]
  /\ pass1Reqs' = pass1Reqs + 1
  /\ UNCHANGED ecoMatches
  /\ UNCHANGED <<enginePath, outWritable, outfile, processed_count, exc, result>>
  /\ UNCHANGED <<game, headers, root_node, ply_count, flag2, commit>>
  /\ UNCHANGED clsVars

\* Pass1: judge_move's second analyse, on the position after the played move
Pass1Second ==
  /\ pc = "pass1b"
  /\ \E r \in Answers(engine, SecondAnswers(Turn(node)), Turn(node)) :
       LET o == judge_second(Turn(node - 1), judgment, r) IN
         /\ Request(r)
         /\ Pass1After(o)
         /\ jm' = JmDone(o, r, 2, jm.same, TRUE, 1)
  /\ judgment' = None
  /\ pass1Reqs' = pass1Reqs + 1
  /\ UNCHANGED <<judged, ecoMatches>>
  /\ UNCHANGED <<enginePath, outWritable, outfile, processed_count, exc, result>>
  /\ UNCHANGED <<game, headers, root_node, ply_count, flag2, commit>>
  /\ UNCHANGED clsVars

\* lines 866-891: Pass1 has walked to the boundary; ACPL headers, set up Pass2
Pass1Done ==
  /\ pc = "pass1" /\ node = root_node
  /\ headers' = add_acpl(headers, tree, root_node)
  /\ node' = game_end(tree)
  /\ pc' = "pass2"
  /\ UNCHANGED <<enginePath, outWritable, engine, outfile, processed_count,
                 analyzed_game, exc, result>>
  /\ UNCHANGED <<game, tree, root_node, ply_count, error_count, judgment>>
  /\ UNCHANGED obsVars
  /\ UNCHANGED clsVars

\* Pass2, lines 899-912, after judge_move has returned or raised (outcome o);
\* nothing in Pass2 catches an exception
Pass2After(o) ==
  IF o.tag = "return"
  THEN /\ tree' = pass2_commit(tree, node, o.value)
       /\ flag2' = [flag2 EXCEPT ![node] = IF needs_annotation(o.value) THEN "yes" ELSE "no"]
       /\ commit' = [commit EXCEPT ![node] = IF needs_annotation(o.value) THEN o.value ELSE None]
       /\ IF debug_print_raises(o.value)
          THEN Propagate("KeyError") /\ node' = node
               /\ outcomes' = Append(outcomes, "aborted")
          ELSE pc' = "pass2" /\ node' = node - 1 /\ UNCHANGED <<exc, outcomes>>
  ELSE /\ Propagate(o.exc)
       /\ outcomes' = Append(outcomes, "aborted")
       /\ UNCHANGED <<tree, flag2, commit, node>>

\* Pass2: a ply Pass1 flagged is judged again; first analyse
Pass2First ==
  /\ pc = "pass2" /\ node # root_node
  /\ needs_annotation(tree[node].comment)
  /\ \E r \in Answers(engine, FirstAnswers(Turn(node - 1)), Turn(node - 1)) :
       LET o == judge_first(Turn(node - 1), tree[node].move, r) IN
         /\ Request(r)
         /\ IF o.tag = "await"
            THEN /\ judgment' = o.value
                 /\ pc' = "pass2b"
                 /\ jm' = JmAwaiting(SameAs(r, tree[node].move), 2)
                 /\ UNCHANGED <<tree, flag2, commit, node, exc, outcomes>>
            ELSE /\ Pass2After(o)
                 /\ jm' = JmDone(o, r, 1, SameAs(r, tree[node].move), r.score # NoScore, 2)
                 /\ UNCHANGED judgment
  /\ judged' = [judged EXCEPT ![2][node] = @ + 1]
  /\ UNCHANGED pass1Reqs
  /\ UNCHANGED ecoMatches
  /\ UNCHANGED <<enginePath, outWritable, outfile, processed_count, analyzed_game, result>>
  /\ UNCHANGED <<game, headers, root_node, ply_count, error_count, flag1>>
  /\ UNCHANGED clsVars

\* Pass2: second analyse
Pass2Second ==
  /\ pc = "pass2b"
  /\ \E r \in Answers(engine, SecondAnswers(Turn(node)), Turn(node)) :
       LET o == judge_second(Turn(node - 1), judgment, r) IN
         /\ Request(r)
         /\ Pass2After(o)
         /\ jm' = JmDone(o, r, 2, jm.same, TRUE, 2)
  /\ judgment' = None
  /\ UNCHANGED <<judged, pass1Reqs, ecoMatches>>
  /\ UNCHANGED <<enginePath, outWritable, outfile, processed_count, analyzed_game, result>>
  /\ UNCHANGED <<game, headers, root_node, ply_count, error_count, flag1>>
  /\ UNCHANGED clsVars

\* Pass2, lines 909-912: a ply Pass1 did not flag loses its working annotation
Pass2Clear ==
  /\ pc = "pass2" /\ node # root_node
  /\ ~needs_annotation(tree[node].comment)
  /\ tree' = [tree EXCEPT ![node].comment = None]
  /\ node' = node - 1
  /\ UNCHANGED <<pc, enginePath, outWritable, engine, outfile, processed_count,
                 analyzed_game, exc, result>>
  /\ UNCHANGED <<game, headers, root_node, ply_count, error_count, judgment>>
  /\ UNCHANGED obsVars
  /\ UNCHANGED clsVars

\* lines 914-923: annotator identity, serialize and re-wrap
Finalize ==
  /\ pc = "pass2" /\ node = root_node
  /\ tree' = [tree EXCEPT ![0].comment = Str("engine name")]
  /\ headers' = [headers EXCEPT !.annotator = TRUE]
  /\ analyzed_game' = Str("pgn")
  /\ outcomes' = Append(outcomes, "completed")
  /\ pc' = "write"
  /\ UNCHANGED <<enginePath, outWritable, engine, outfile, processed_count, exc, result>>
  /\ UNCHANGED <<game, root_node, ply_count, error_count, node, judgment>>
  /\ UNCHANGED <<jm, flag1, flag2, commit, reqOnTerminated, gameReqs, judged, pass1Reqs, ecoMatches>>
  /\ UNCHANGED clsVars

\* run_annotate_async, lines 1177-1182: analyze_game returned without raising
write_game(f, k, value) ==
  [f EXCEPT !.records = Append(@, [game |-> k, text |-> PyStr(value)])]

WriteGame ==
  /\ pc = "write"
  /\ outfile' = write_game(outfile, processed_count, analyzed_game)
  /\ pc' = "loop"
  /\ UNCHANGED <<enginePath, outWritable, engine, processed_count, analyzed_game,
                 exc, result>>
  /\ UNCHANGED gameState /\ UNCHANGED obsVars
  /\ UNCHANGED clsVars

\* "await engine.quit()" sends quit to a live engine and waits for its exit; a
\* dead process has already exited
quit_awaited(eng) == IF eng = "ready" THEN "quit" ELSE eng

\* "engine.quit()" without await builds a coroutine that never runs
quit_not_awaited(eng) == eng

\* lines 1184-1185
Quit ==
  /\ pc = "quit"
  /\ engine' = IF valid_engine(enginePath) /\ engine # "none"
               THEN quit_awaited(engine) ELSE engine
  /\ pc' = "finally"
  /\ UNCHANGED <<enginePath, outWritable, outfile, processed_count, analyzed_game,
                 exc, result>>
  /\ UNCHANGED gameState /\ UNCHANGED obsVars
  /\ UNCHANGED clsVars

\* lines 1201-1207 and run_annotate, lines 1120-1127
Finally ==
  /\ pc = "finally"
  /\ engine' = IF engine # "none" /\ valid_engine(enginePath)
               THEN quit_not_awaited(engine) ELSE engine
  /\ result' = run_annotate(exc)
  /\ pc' = "done"
  /\ UNCHANGED <<enginePath, outWritable, outfile, processed_count, analyzed_game, exc>>
  /\ UNCHANGED gameState /\ UNCHANGED obsVars
  /\ UNCHANGED clsVars

\* the run is interrupted from outside while it waits for the engine
Awaiting ==
  \/ pc \in {"pass1b", "pass2b"}
  \/ pc = "pass1" /\ node # root_node
  \/ pc = "pass2" /\ node # root_node /\ needs_annotation(tree[node].comment)
  \/ pc = "quit" /\ engine = "ready"

Interrupt ==
  /\ Awaiting
  /\ Propagate("KeyboardInterrupt")
  /\ UNCHANGED <<enginePath, outWritable, engine, outfile, processed_count,
                 analyzed_game, result>>
  /\ UNCHANGED gameState /\ UNCHANGED obsVars
  /\ UNCHANGED clsVars

Next ==
  \/ StartRun \/ ReadGame \/ EndOfInput \/ ParseCheck \/ CleanGame
  \/ ClassifyOpening \/ Pass1First \/ Pass1Second \/ Pass1Done
  \/ Pass2First \/ Pass2Second \/ Pass2Clear \/ Finalize \/ WriteGame
  \/ Quit \/ Finally \/ Interrupt

vars == <<runVars, obsVars, clsVars>>

Spec == RunInit /\ [][Next]_vars

\* ------------------------------------------- the classifier on one judgment
Judged(be, pe) == [kind |-> "dict", besteval |-> be, playedeval |-> pe]

\* judgments needs_annotation is given: both evaluations, one only, None, the
\* error records of judge_move and the skip marker of Pass1
ClassifierInputs ==
  {Judged(be, pe) : be \in EvalDomain, pe \in EvalDomain}
    \cup {[kind |-> "dict", besteval |-> be] : be \in EvalDomain}
    \cup {[kind |-> "dict", playedeval |-> pe] : pe \in EvalDomain}
    \cup {[kind |-> "dict", bestmove |-> "e"]}
    \cup {None, SkipMarker, ErrTerminated, ErrNoPV}

ClassifierInit ==
  /\ RunState0 /\ enginePath = "stockfish" /\ outWritable
  /\ cjudgment \in ClassifierInputs
  /\ cflag = "pending"
  /\ SeverityIdle /\ EvalIdle /\ BudgetIdle /\ AuxIdle

ApplyNeedsAnnotation ==
  /\ cflag = "pending"
  /\ cflag' = IF needs_annotation(cjudgment) THEN "True" ELSE "False"
  /\ UNCHANGED <<cjudgment, runVars, obsVars, sevVars, evalVars, budVars, auxVars>>

ClassifierNext == ApplyNeedsAnnotation

SpecClassifier == ClassifierInit /\ [][ClassifierNext]_vars

\* ----------------------------------------------- get_nags on one judgment
\* differences playedeval - besteval on both sides of every threshold
SeverityDeltas ==
  {-250, -201, -200, -199, -101, -100, -99, -31, -30, -29, -1, 0, 1, 10, 50, 51, 300}

SeverityInputs ==
  {Judged(be, be + d) : be \in {-150, 0, 100, 2000}, d \in SeverityDeltas}
    \cup {[kind |-> "dict", besteval |-> 0], [kind |-> "dict", playedeval |-> 0]}

SeverityInit ==
  /\ RunState0 /\ enginePath = "stockfish" /\ outWritable
  /\ ClassifierIdle
  /\ sjudgment \in SeverityInputs
  /\ snags = [state |-> "pending", nags |-> {}]
  /\ EvalIdle /\ BudgetIdle /\ AuxIdle

ApplyGetNags ==
  /\ snags.state = "pending"
  /\ snags' = [state |-> "returned", nags |-> get_nags(sjudgment)]
  /\ UNCHANGED <<sjudgment, runVars, obsVars, cjudgment, cflag, evalVars, budVars, auxVars>>

SeverityNext == ApplyGetNags

SpecSeverity == SeverityInit /\ [][SeverityNext]_vars

\* ------------------------------- eval_numeric and eval_human on two results
\* scores an engine reports: mates at short and long distance for either
\* side, "mate 0" (the side to move is checkmated), centipawns, none
EvalScores ==
  {Mate(n) : n \in {-17999, -4, -3, -2, -1, 0, 1, 2, 3, 4, 17999}}
    \cup {Cp(n) : n \in {-2000, -150, -1, 0, 1, 150, 2000}}
    \cup {NoScore}

EvalInit ==
  /\ RunState0 /\ enginePath = "stockfish" /\ outWritable
  /\ ClassifierIdle /\ SeverityIdle
  /\ \E turn \in BOOLEAN :
       eresults \in {<<Info(<<"e">>, s1, turn), Info(<<"e">>, s2, turn)>> :
                       s1 \in EvalScores, s2 \in EvalScores}
  /\ eturn \in BOOLEAN
  /\ enumeric = [state |-> "pending", out |-> <<>>]
  /\ ehuman = [state |-> "pending", out |-> <<>>]
  /\ BudgetIdle /\ AuxIdle

ApplyEvalNumeric ==
  /\ enumeric.state = "pending"
  /\ enumeric' = [state |-> "returned",
                  out |-> [k \in 1..2 |-> eval_numeric(eresults[k], eturn)]]
  /\ UNCHANGED <<eresults, eturn, ehuman, runVars, obsVars, cjudgment, cflag, sevVars, budVars, auxVars>>

ApplyEvalHuman ==
  /\ ehuman.state = "pending"
  /\ ehuman' = [state |-> "returned",
                out |-> [k \in 1..2 |-> eval_human(eturn, eresults[k])]]
  /\ UNCHANGED <<eresults, eturn, enumeric, runVars, obsVars, cjudgment, cflag, sevVars, budVars, auxVars>>

EvalNext == ApplyEvalNumeric \/ ApplyEvalHuman

SpecEval == EvalInit /\ [][EvalNext]_vars

\* ------------------------------------------ the time budget of one game
\* game time in minutes, plies to analyse, plies Pass1 flagged
BudgetInputs ==
  {a \in [arg_gametime : {1, 2, 3, 5}, ply_count : {0, 1, 2, 7, 20},
          error_count : {0, 1, 4}] : a.error_count <= a.ply_count}

BudgetInit ==
  /\ RunState0 /\ enginePath = "stockfish" /\ outWritable
  /\ ClassifierIdle /\ SeverityIdle /\ EvalIdle
  /\ AuxIdle
  /\ bargs \in BudgetInputs
  /\ btime = [NoBudget EXCEPT !.pc = "start"]

\* analyze_game, lines 823-825
Pass1Budget ==
  /\ btime.pc = "start"
  /\ LET budget == get_total_budget(bargs.arg_gametime)
         pass1_budget == get_pass1_budget(budget)
     IN btime' = [pc |-> "pass1", budget |-> budget, pass1_budget |-> pass1_budget,
                  pass2_budget |-> 0,
                  time_per_move |-> get_time_per_move(pass1_budget, bargs.ply_count)]
  /\ UNCHANGED <<bargs, runVars, obsVars, cjudgment, cflag, sevVars, evalVars, auxVars>>

\* analyze_game, lines 876-884
Pass2Budget ==
  /\ btime.pc = "pass1"
  /\ LET pass2_budget == get_pass2_budget(btime.budget, btime.pass1_budget)
     IN btime' = [btime EXCEPT !.pc = "pass2", !.pass2_budget = pass2_budget,
                               !.time_per_move =
                                  pass2_time_per_move(pass2_budget, bargs.error_count, @)]
  /\ UNCHANGED <<bargs, runVars, obsVars, cjudgment, cflag, sevVars, evalVars, auxVars>>

BudgetNext == Pass1Budget \/ Pass2Budget

SpecBudget == BudgetInit /\ [][BudgetNext]_vars

\* ------------------------------------ the side line of an annotated move
\* moves of a principal variation after its first
ContMoves ==
  <<"", "c2", "c3", "c4", "c5", "c6", "c7", "c8", "c9", "c10", "c11", "c12",
    "c13", "c14", "c15">>

\* a principal variation of n half-moves that begins with move `first`
PVLine(first, n) == [k \in 1..n |-> IF k = 1 THEN first ELSE ContMoves[k]]

\* the engine's line and whether the game is over once all of it is played
TruncInputs ==
  [pv : {PVLine(first, n) : first \in Moves, n \in 1..Len(ContMoves)},
   ends_game : BOOLEAN]

TruncInit ==
  /\ RunIdle /\ ExtIdle /\ SegIdle /\ FiltIdle /\ WrapIdle /\ ChancesIdle
  /\ \E a \in TruncInputs :
       trunc = [state |-> "pending", pv |-> a.pv, ends_game |-> a.ends_game,
                variations |-> <<MainChild(1)>>]

\* add_annotation, lines 549-555
AttachLine ==
  /\ trunc.state = "pending"
  /\ trunc' = [trunc EXCEPT !.state = "attached",
                            !.variations =
                               add_line(@, truncate_pv(trunc.ends_game, trunc.pv))]
  /\ UNCHANGED <<runIdleVars, extVars, seg, filt, wrap, chances>>

TruncNext == AttachLine

SpecTruncate == TruncInit /\ [][TruncNext]_vars

\* --------------------------------------------------- pgn_text_iterator
\* A line of the input file: the record it belongs to (0: before the first
\* record) and what it is: "event" (begins with '[Event ' once stripped),
\* "tag" (another header line), "moves", or "blank" (white space only).
Line(rec, kind) == [rec |-> rec, kind |-> kind]

\* stripped_line.startswith('[Event ')
is_boundary(line) == line.kind = "event"

\* "".join(lines).strip(): white space at both ends goes, that is the blank
\* lines at the top and at the bottom (and the last line's newline)
RECURSIVE LStrip(_)
LStrip(lines) ==
  IF lines # <<>> /\ Head(lines).kind = "blank" THEN LStrip(Tail(lines)) ELSE lines

RECURSIVE RStrip(_)
RStrip(lines) ==
  IF lines # <<>> /\ lines[Len(lines)].kind = "blank"
  THEN RStrip(SubSeq(lines, 1, Len(lines) - 1)) ELSE lines

JoinStrip(lines) == RStrip(LStrip(lines))

\* the loop body of pgn_text_iterator for one line of the file
iter_line(st, line) ==
  IF is_boundary(line)
  THEN IF st.current_item_lines # <<>>
       THEN [st EXCEPT !.yielded = Append(@, JoinStrip(st.current_item_lines)),
                       !.current_item_lines = <<line>>, !.pos = @ + 1]
       ELSE [st EXCEPT !.current_item_lines = Append(@, line), !.pos = @ + 1]
  ELSE [st EXCEPT !.current_item_lines = Append(@, line), !.pos = @ + 1]

\* after the loop: what the buffer still holds is yielded
iter_end_drops_rest(st) == [st EXCEPT !.state = "done"]

iter_end(st) ==
  IF st.current_item_lines # <<>>
  THEN [st EXCEPT !.yielded = Append(@, JoinStrip(st.current_item_lines)),
                  !.state = "done"]
  ELSE [st EXCEPT !.state = "done"]

\* the lines that follow the '[Event ' line in a record
RecordBodies ==
  {<<>>, <<"tag">>, <<"tag", "blank", "moves">>, <<"tag", "blank", "moves", "blank">>}

Record(i, body) ==
  <<Line(i, "event")>> \o [k \in 1..Len(body) |-> Line(i, body[k])]

RECURSIVE Records(_, _)
Records(bodies, n) ==
  IF n = 0 THEN <<>> ELSE Records(bodies, n - 1) \o Record(n, bodies[n])

\* files of one to three records, with or without a blank line on top
SegInputs ==
  [bodies : UNION {[1..n -> RecordBodies] : n \in 1..3},
   preamble : {<<>>, <<Line(0, "blank")>>}]

SegInit ==
  /\ RunIdle /\ ExtIdle /\ TruncIdle /\ FiltIdle /\ WrapIdle /\ ChancesIdle
  /\ \E a \in SegInputs :
       seg = [state |-> "reading", bodies |-> a.bodies, preamble |-> a.preamble,
              file |-> a.preamble \o Records(a.bodies, Len(a.bodies)),
              pos |-> 1, current_item_lines |-> <<>>, yielded |-> <<>>]

IterLine ==
  /\ seg.state = "reading" /\ seg.pos <= Len(seg.file)
  /\ seg' = iter_line(seg, seg.file[seg.pos])
  /\ UNCHANGED <<runIdleVars, extVars, trunc, filt, wrap, chances>>

IterEnd ==
  /\ seg.state = "reading" /\ seg.pos > Len(seg.file)
  /\ seg' = iter_end(seg)
  /\ UNCHANGED <<runIdleVars, extVars, trunc, filt, wrap, chances>>

SegNext == IterLine \/ IterEnd

SpecSegment == SegInit /\ [][SegNext]_vars

\* ------------------------------------------------------- matches_filter
\* A Python str is the sequence of its characters here.
UpperLower ==
  { <<"A", "a">>, <<"B", "b">>, <<"C", "c">>, <<"D", "d">>, <<"E", "e">>,
    <<"F", "f">>, <<"G", "g">>, <<"H", "h">>, <<"I", "i">>, <<"J", "j">>,
    <<"K", "k">>, <<"L", "l">>, <<"M", "m">>, <<"N", "n">>, <<"O", "o">>,
    <<"P", "p">>, <<"Q", "q">>, <<"R", "r">>, <<"S", "s">>, <<"T", "t">>,
    <<"U", "u">>, <<"V", "v">>, <<"W", "w">>, <<"X", "x">>, <<"Y", "y">>,
    <<"Z", "z">> }

lower_char(c) ==
  IF \E p \in UpperLower : p[1] = c
  THEN (CHOOSE p \in UpperLower : p[1] = c)[2] ELSE c

\* s.lower()
lower(s) == [k \in 1..Len(s) |-> lower_char(s[k])]

\* a in b, for strings
In(a, b) ==
  \E i \in 0..Len(b) : i + Len(a) <= Len(b) /\ SubSeq(b, i + 1, i + Len(a)) = a

\* s.strip()
RECURSIVE lstrip(_)
lstrip(s) == IF s # <<>> /\ Head(s) = " " THEN lstrip(Tail(s)) ELSE s

RECURSIVE rstrip(_)
rstrip(s) ==
  IF s # <<>> /\ s[Len(s)] = " " THEN rstrip(SubSeq(s, 1, Len(s) - 1)) ELSE s

strip(s) == rstrip(lstrip(s))

\* position of the first sep in s, 0 if there is none
FirstIndex(s, sep) ==
  IF \E i \in 1..Len(s) : s[i] = sep
  THEN CHOOSE i \in 1..Len(s) : s[i] = sep /\ \A j \in 1..(i - 1) : s[j] # sep
  ELSE 0

\* s.split(sep, 1)
split1(s, sep) ==
  LET i == FirstIndex(s, sep) IN
  IF i = 0 THEN <<s>> ELSE <<SubSeq(s, 1, i - 1), SubSeq(s, i + 1, Len(s))>>

\* s.split(sep)
RECURSIVE split(_, _)
split(s, sep) ==
  LET i == FirstIndex(s, sep) IN
  IF i = 0 THEN <<s>>
  ELSE <<SubSeq(s, 1, i - 1)>> \o split(SubSeq(s, i + 1, Len(s)), sep)

\* [p.strip() for p in parts if p.strip()]
RECURSIVE StripNonEmpty(_)
StripNonEmpty(parts) ==
  IF parts = <<>> THEN <<>>
  ELSE IF strip(Head(parts)) = <<>> THEN StripNonEmpty(Tail(parts))
  ELSE <<strip(Head(parts))>> \o StripNonEmpty(Tail(parts))

\* game.headers.get(name, default); the headers of a game are a function
\* from header names to values
get(headers_, name, default) ==
  IF name \in DOMAIN headers_ THEN headers_[name] ELSE default

Digits ==
  { <<"0", 0>>, <<"1", 1>>, <<"2", 2>>, <<"3", 3>>, <<"4", 4>>, <<"5", 5>>,
    <<"6", 6>>, <<"7", 7>>, <<"8", 8>>, <<"9", 9>> }

IsDigit(c) == \E p \in Digits : p[1] = c

RECURSIVE DecimalValue(_)
DecimalValue(s) ==
  IF s = <<>> THEN 0
  ELSE DecimalValue(SubSeq(s, 1, Len(s) - 1)) * 10
         + (CHOOSE p \in Digits : p[1] = s[Len(s)])[2]

\* the rating of a player: int(game.headers.get(name, 0)), 0 on ValueError
rating(headers_, name) ==
  IF name \notin DOMAIN headers_ THEN 0
  ELSE IF headers_[name] # <<>> /\ \A k \in 1..Len(headers_[name]) : IsDigit(headers_[name][k])
  THEN DecimalValue(headers_[name])
  ELSE 0

HIGH_RATING == 2650

\* matches_filter for the filter value "Interesting", lines 119-169
interesting(headers_) ==
  \* result is None when the game has no Result header
  LET result_ == get(headers_, <<"R", "e", "s", "u", "l", "t">>, <<>>) IN
  IF <<"R", "e", "s", "u", "l", "t">> \notin DOMAIN headers_ \/ result_ = <<"1", "/", "2", "-", "1", "/", "2">> THEN FALSE
  ELSE LET is_high_rated_white == rating(headers_, <<"W", "h", "i", "t", "e", "E", "l", "o">>) >= HIGH_RATING
           is_high_rated_black == rating(headers_, <<"B", "l", "a", "c", "k", "E", "l", "o">>) >= HIGH_RATING
       IN IF is_high_rated_white /\ is_high_rated_black THEN TRUE
          ELSE IF result_ = <<"1", "-", "0">> /\ is_high_rated_black /\ ~is_high_rated_white THEN TRUE
          ELSE IF result_ = <<"0", "-", "1">> /\ is_high_rated_white /\ ~is_high_rated_black THEN TRUE
          ELSE FALSE

\* one clause: whether some value of it matches (the loops of lines 186-229)
passed_condition_single_header(headers_, key, values) ==
  LET header_value == get(headers_, key, <<>>) IN
  IF lower(key) \notin {<<"r", "e", "s", "u", "l", "t">>, <<"r", "o", "u", "n", "d">>, <<"d", "a", "t", "e">>, <<"e", "c", "o">>}
  THEN \E k \in 1..Len(values) : In(lower(values[k]), lower(header_value))
  ELSE \E k \in 1..Len(values) : lower(values[k]) = lower(header_value)

passed_condition(headers_, key, values) ==
  IF lower(key) = <<"p", "l", "a", "y", "e", "r">>
  THEN \E k \in 1..Len(values) :
         \/ In(lower(values[k]), lower(get(headers_, <<"W", "h", "i", "t", "e">>, <<>>)))
         \/ In(lower(values[k]), lower(get(headers_, <<"B", "l", "a", "c", "k">>, <<>>)))
  ELSE IF lower(key) = <<"t", "i", "t", "l", "e">>
  THEN \E k \in 1..Len(values) :
         \/ In(lower(values[k]), lower(get(headers_, <<"W", "h", "i", "t", "e", "T", "i", "t", "l", "e">>, <<>>)))
         \/ In(lower(values[k]), lower(get(headers_, <<"B", "l", "a", "c", "k", "T", "i", "t", "l", "e">>, <<>>)))
  ELSE IF lower(key) = <<"s", "i", "t", "e">>
  THEN \E k \in 1..Len(values) : In(lower(values[k]), lower(get(headers_, <<"S", "i", "t", "e">>, <<>>)))
  ELSE IF lower(key) = <<"e", "v", "e", "n", "t">>
  THEN \E k \in 1..Len(values) : In(lower(values[k]), lower(get(headers_, <<"E", "v", "e", "n", "t">>, <<>>)))
  ELSE LET header_value == get(headers_, key, <<>>) IN
       IF lower(key) \notin {<<"r", "e", "s", "u", "l", "t">>, <<"r", "o", "u", "n", "d">>, <<"d", "a", "t", "e">>, <<"e", "c", "o">>}
       THEN \E k \in 1..Len(values) : In(lower(values[k]), lower(header_value))
       ELSE \E k \in 1..Len(values) : lower(values[k]) = lower(header_value)

\* the loop over the clauses, lines 174-234
RECURSIVE filters_pass(_, _)
filters_pass(headers_, filters) ==
  IF filters = <<>> THEN TRUE
  ELSE LET filter_item == Head(filters) IN
       IF FirstIndex(filter_item, ":") = 0 THEN filters_pass(headers_, Tail(filters))
       ELSE LET parts == split1(filter_item, ":")
                key == strip(parts[1])
                values == StripNonEmpty(split(strip(parts[2]), ","))
            IN IF ~passed_condition(headers_, key, values) THEN FALSE
               ELSE filters_pass(headers_, Tail(filters))

matches_filter(headers_, filter_string) ==
  IF filter_string = <<>> \/ filter_string = <<"G", "e", "e", "n">> THEN TRUE
  ELSE IF filter_string = <<"I", "n", "t", "e", "r", "e", "s", "t", "i", "n", "g">> THEN interesting(headers_)
  ELSE filters_pass(headers_, StripNonEmpty(split(filter_string, ";")))

\* a header the game does not have
Absent == <<"(absent)">>

\* the headers of a game from a choice of values, Absent ones left out
MakeHeaders(f) == [name \in {n \in DOMAIN f : f[n] # Absent} |-> f[name]]

\* games for the clause filters
ClauseGames ==
  { MakeHeaders(<<"W", "h", "i", "t", "e">> :> s.white @@ <<"B", "l", "a", "c", "k">> :> s.black @@ <<"R", "e", "s", "u", "l", "t">> :> s.result
                  @@ <<"E", "C", "O">> :> s.eco @@ <<"E", "v", "e", "n", "t">> :> s.event @@ <<"W", "h", "i", "t", "e", "T", "i", "t", "l", "e">> :> s.title) :
      s \in [white : {<<"C", "a", "r", "l", "s", "e", "n">>, <<"C", "a", "r", "u", "a", "n", "a">>},
             black : {<<"N", "a", "k", "a", "m", "u", "r", "a">>, <<"M", "a", "g", "n", "u", "s", " ", "C", "a", "r", "l", "s", "e", "n">>},
             result : {<<"1", "-", "0">>, <<"0", "-", "1">>, <<"1", "/", "2", "-", "1", "/", "2">>, <<"*">>},
             eco : {<<"B", "9", "0">>, Absent},
             event : {<<"T", "a", "t", "a", " ", "S", "t", "e", "e", "l", " ", "O", "p", "e", "n">>, Absent},
             title : {<<"G", "M">>, Absent}] }

ClauseFilters ==
  { <<"P", "l", "a", "y", "e", "r", ":", "C", "a", "r", "l", "s", "e", "n", ";", "R", "e", "s", "u", "l", "t", ":", "1", "-", "0">>, <<"p", "l", "a", "y", "e", "r", ":", "c", "a", "r", "l", "s", "e", "n", ",", "C", "a", "r", "u", "a", "n", "a">>, <<"R", "e", "s", "u", "l", "t", ":", "1", "-", "0", ",", "0", "-", "1">>,
    <<"T", "i", "t", "l", "e", ":", "g", "m">>, <<"E", "v", "e", "n", "t", ":", "o", "p", "e", "n", ";", " ", "E", "C", "O", ":", "B", "9", "0">>, <<"E", "C", "O", ":", "b", "9">>, <<"C", "a", "r", "l", "s", "e", "n">>, <<"P", "l", "a", "y", "e", "r", ":">>,
    <<"r", "e", "s", "u", "l", "t", ":", "1", "-", "0">>, <<"G", "e", "e", "n">>, <<>> }

\* games for the filter value "Interesting": results and ratings
RatingValues == {Absent, <<"2", "0", "0", "0">>, <<"2", "6", "4", "9">>, <<"2", "6", "5", "0">>, <<"2", "6", "5", "1">>, <<"?">>}

InterestingGames ==
  { MakeHeaders(<<"W", "h", "i", "t", "e">> :> <<"C", "a", "r", "l", "s", "e", "n">> @@ <<"B", "l", "a", "c", "k">> :> <<"N", "a", "k", "a", "m", "u", "r", "a">> @@ <<"R", "e", "s", "u", "l", "t">> :> s.result
                  @@ <<"W", "h", "i", "t", "e", "E", "l", "o">> :> s.welo @@ <<"B", "l", "a", "c", "k", "E", "l", "o">> :> s.belo) :
      s \in [result : {<<"1", "-", "0">>, <<"0", "-", "1">>, <<"1", "/", "2", "-", "1", "/", "2">>, <<"*">>, Absent},
             welo : RatingValues, belo : RatingValues] }

FilterInputs ==
  [headers : ClauseGames, filter_string : ClauseFilters]
    \cup [headers : InterestingGames, filter_string : {<<"I", "n", "t", "e", "r", "e", "s", "t", "i", "n", "g">>}]

FilterInit ==
  /\ RunIdle /\ ExtIdle /\ TruncIdle /\ SegIdle /\ WrapIdle /\ ChancesIdle
  /\ \E a \in FilterInputs :
       filt = [state |-> "pending", headers |-> a.headers,
               filter_string |-> a.filter_string, accepted |-> FALSE]

ApplyFilter ==
  /\ filt.state = "pending"
  /\ filt' = [filt EXCEPT !.state = "returned",
                          !.accepted = matches_filter(filt.headers, filt.filter_string)]
  /\ UNCHANGED <<runIdleVars, extVars, trunc, seg, wrap, chances>>

FilterNext == ApplyFilter

SpecFilter == FilterInit /\ [][FilterNext]_vars

\* ---- change_nags: the re-wrap of the serialized game ----

\* pgn.replace("  ", " "): the pairs of spaces found left to right
RECURSIVE replace_double_space(_)
replace_double_space(s) ==
  LET pairs == {i \in 1..(Len(s) - 1) : s[i] = " " /\ s[i + 1] = " "} IN
  IF pairs = {} THEN s
  ELSE LET i == CHOOSE p \in pairs : \A q \in pairs : p <= q IN
       SubSeq(s, 1, i - 1) \o <<" ">> \o replace_double_space(SubSeq(s, i + 2, Len(s)))

\* sep.join(parts)
RECURSIVE join(_, _)
join(sep, parts) ==
  IF parts = <<>> THEN <<>>
  ELSE IF Len(parts) = 1 THEN parts[1]
  ELSE parts[1] \o sep \o join(sep, Tail(parts))

\* the loop over the words of one long line; hl is the line buffer and the
\* result the lines appended to res
RECURSIVE wrap_words(_, _)
wrap_words(hl, line_strs) ==
  IF line_strs = <<>> THEN (IF Len(hl) > 0 THEN <<hl>> ELSE <<>>)
  ELSE LET word == Head(line_strs) IN
       IF Len(hl) + Len(word) < 80 \/ word = <<"}">> \/ word = <<")">>
       THEN LET sep == IF Len(hl) = 0 THEN <<>> ELSE <<" ">> IN
            wrap_words(hl \o sep \o word, Tail(line_strs))
       ELSE <<hl>> \o wrap_words(word, Tail(line_strs))

\* the loop over the lines after the first
RECURSIVE wrap_lines(_)
wrap_lines(strs) ==
  IF strs = <<>> THEN <<>>
  ELSE LET line == Head(strs) IN
       (IF Len(line) < 80 \/ (line # <<>> /\ line[1] = "[")
        THEN <<line>>
        ELSE wrap_words(<<>>, split(line, " ")))
         \o wrap_lines(Tail(strs))

change_nags(pgn) ==
  LET strs == split(replace_double_space(pgn), "\n")
  IN join(<<"\n">>, <<Head(strs)>> \o wrap_lines(Tail(strs)))

\* a token of n characters c
Tok(c, n) == [k \in 1..n |-> c]

\* tokens of the move text: moves and comment words of several lengths, the
\* brace that closes a comment
WrapTokens == {Tok("a", 40), Tok("b", 39), Tok("c", 10), Tok("d", 80), <<"x">>, <<"}">>}

MaxTokens == 4

\* serialized games: a header line, an empty line, the move text on one line
WrapInputs ==
  { join(<<"\n">>, <<<<"[", "E", "v", "e", "n", "t", " ", "\"", "x", "\"", "]">>, <<>>, join(<<" ">>, toks)>>) :
      toks \in UNION {[1..n -> WrapTokens] : n \in 1..MaxTokens} }

WrapInit ==
  /\ RunIdle /\ ExtIdle /\ TruncIdle /\ SegIdle /\ FiltIdle /\ ChancesIdle
  /\ \E p \in WrapInputs : wrap = [state |-> "pending", pgn |-> p, out |-> <<>>]

Rewrap ==
  /\ wrap.state = "pending"
  /\ wrap' = [wrap EXCEPT !.state = "returned", !.out = change_nags(wrap.pgn)]
  /\ UNCHANGED <<runIdleVars, extVars, trunc, seg, filt, chances>>

WrapNext == Rewrap

SpecWrap == WrapInit /\ [][WrapNext]_vars

\* ---- winning_chances on two evaluations ----
ChancesInputs == EvalDomain \X EvalDomain

ChancesInit ==
  /\ RunIdle /\ ExtIdle /\ TruncIdle /\ SegIdle /\ FiltIdle /\ WrapIdle
  /\ \E ab \in ChancesInputs :
       chances = [state |-> "pending", a |-> ab[1], b |-> ab[2], wa |-> 0, wb |-> 0]

ApplyChances ==
  /\ chances.state = "pending"
  /\ chances' = [chances EXCEPT !.state = "returned",
                                !.wa = winning_chances(chances.a),
                                !.wb = winning_chances(chances.b)]
  /\ UNCHANGED <<runIdleVars, extVars, trunc, seg, filt, wrap>>

ChancesNext == ApplyChances

SpecChances == ChancesInit /\ [][ChancesNext]_vars

\* ---- add_acpl on a game as Pass1 leaves it ----
AcplPly == 4         \* half-moves of the games given to add_acpl

\* what Pass1 leaves in node.comment: a judgment with both evaluations or
\* the skip marker
AcplComments ==
  { [kind |-> "dict", bestmove |-> "e", besteval |-> p[1], playedeval |-> p[2]] :
      p \in {<<0, 0>>, <<1, 0>>, <<30, 0>>, <<0, 30>>, <<2001, 0>>, <<19999, -19999>>} }
    \cup {SkipMarker}

\* the main line with the comments cs on its plies
AcplTree(cs) ==
  [i \in 0..Len(cs) |->
     [move |-> IF i = 0 THEN "" ELSE "g",
      comment |-> IF i = 0 THEN None ELSE cs[i],
      nags |-> {},
      variations |-> IF i = Len(cs) THEN <<>> ELSE <<MainChild(i + 1)>>]]

AcplInit ==
  /\ CoreIdle /\ JdgIdle /\ SessIdle /\ GuiIdle /\ ConIdle
  /\ \E cs \in [1..AcplPly -> AcplComments], r \in 0..1 :
       acp = [state |-> "pending", tree |-> AcplTree(cs), root_node |-> r,
              headers |-> NoHeaders]

ApplyAcpl ==
  /\ acp.state = "pending"
  /\ acp' = [acp EXCEPT !.state = "returned",
                        !.headers = add_acpl(acp.headers, acp.tree, acp.root_node)]
  /\ UNCHANGED <<coreVars, jdg, sess, gui, con>>

AcplNext == ApplyAcpl

SpecAcpl == AcplInit /\ [][AcplNext]_vars

\* ------------------------------------------------ judge_move on a position
\* judge_move against an engine whose evaluations are consistent: every
\* position has one value, and the engine reports it relative to the side to
\* move of the position it was asked about.
\* A chess.Board: the moves played so far and the side to move.
Board(moves) == [moves |-> moves, turn |-> (Len(moves) % 2 = 0)]

\* board.push(move)
Push(board, move) == [moves |-> Append(board.moves, move), turn |-> ~board.turn]

\* the played move pushed on the caller's board
push_in_place(board, played_move) ==
  [board |-> Push(board, played_move), temp_board |-> Push(board, played_move)]

\* temp_board = board.copy(); temp_board.push(played_move)
push_on_copy(board, played_move) ==
  [board |-> board, temp_board |-> Push(board, played_move)]

\* a limit of the whole search time
analysis_limit_whole(searchtime_s) == searchtime_s

\* chess.engine.Limit(time=searchtime_s / 2)
analysis_limit(searchtime_s) == Frac(searchtime_s.num, 2 * searchtime_s.den)

\* values, for the mover, of the given position with best play, and the
\* centipawns the played move gives away
JudgeValues == {-300, -100, 0, 100, 300}
JudgeLosses == {0, 50, 150, 201, 300}
JudgeBoards == {Board(<<>>), Board(<<"g">>)}
JudgeSearchtimes == {Frac(6, 1), Frac(54, 40)}

\* the consistent engine's answer for a position of the call j
ConsistentAnalyse(j, position) ==
  IF position = j.given
  THEN Info(<<j.bestmove>>, Cp(j.value), position.turn)
  ELSE IF position = Push(j.given, j.played_move)
       \* worth value - loss to the mover, the negation to the opponent
       THEN Info(<<"g">>, Cp(0 - (j.value - j.loss)), position.turn)
       ELSE Info(<<"g">>, Cp(0), position.turn)

JudgeInit ==
  /\ CoreIdle /\ AcpIdle /\ SessIdle /\ GuiIdle /\ ConIdle
  /\ \E b \in JudgeBoards, pm \in Moves, bm \in Moves, v \in JudgeValues,
        l \in JudgeLosses, st \in JudgeSearchtimes :
       /\ pm = bm => l = 0
       /\ jdg = [state |-> "called", given |-> b, board |-> b,
                 played_move |-> pm, bestmove |-> bm, value |-> v, loss |-> l,
                 searchtime_s |-> st, requests |-> <<>>, judgment |-> None,
                 nags |-> {}, cpl |-> 0]

\* lines 408-449: the first analyse and what judge_move makes of it
JudgeFirst ==
  /\ jdg.state = "called"
  /\ LET r == ConsistentAnalyse(jdg, jdg.board)
         o == judge_first(jdg.board.turn, jdg.played_move, r)
     IN jdg' = [jdg EXCEPT
                  !.state = IF o.tag = "await" THEN "second" ELSE "returned",
                  !.requests = <<[position |-> jdg.board,
                                  limit |-> analysis_limit(jdg.searchtime_s)]>>,
                  !.judgment = o.value]
  /\ UNCHANGED <<coreVars, acp, sess, gui, con>>

\* lines 450-468: the second analyse, on the position after the played move
JudgeSecond ==
  /\ jdg.state = "second"
  /\ LET bp == push_on_copy(jdg.board, jdg.played_move)
         r == ConsistentAnalyse(jdg, bp.temp_board)
         o == judge_second(jdg.board.turn, jdg.judgment, r)
     IN jdg' = [jdg EXCEPT
                  !.state = "returned",
                  !.board = bp.board,
                  !.requests = Append(@, [position |-> bp.temp_board,
                                          limit |-> analysis_limit(jdg.searchtime_s)]),
                  !.judgment = o.value]
  /\ UNCHANGED <<coreVars, acp, sess, gui, con>>

\* what the callers compute from the judgment: get_nags (add_annotation)
\* and the centipawn loss (add_acpl, lines 760-766)
JudgeClassify ==
  /\ jdg.state = "returned"
  /\ jdg' = [jdg EXCEPT
               !.state = "classified",
               !.nags = get_nags(jdg.judgment),
               !.cpl = cpl(jdg.judgment.besteval - jdg.judgment.playedeval)]
  /\ UNCHANGED <<coreVars, acp, sess, gui, con>>

JudgeNext == JudgeFirst \/ JudgeSecond \/ JudgeClassify

SpecJudge == JudgeInit /\ [][JudgeNext]_vars

\* ------------------------------------------- engine sessions of several runs
\* Runs of run_annotate executing at the same time, each in its own thread
\* with its own event loop (asyncio.run), as the worker threads of the GUI
\* start them.  A session is an engine process with the requests outstanding
\* on it.
NumRuns == 2          \* runs that may execute at the same time
MaxSessGames == 2     \* games of a run's input file
MaxSessReqs == 2      \* analyse requests for one game

NoRun == [pc |-> "idle", engine |-> 0, game |-> 0, reqs |-> 0]

\* a get_engine that hands out the session of an earlier call
get_engine_shared(sessions, run) ==
  IF sessions = <<>>
  THEN [sessions |-> <<[owner |-> run, outstanding |-> 0, quit |-> FALSE]>>, engine |-> 1]
  ELSE [sessions |-> sessions, engine |-> 1]

\* get_engine: popen_uci starts a process of its own for every call
get_engine(sessions, run) ==
  [sessions |-> Append(sessions, [owner |-> run, outstanding |-> 0, quit |-> FALSE]),
   engine |-> Len(sessions) + 1]

SessionsInit ==
  /\ CoreIdle /\ AcpIdle /\ JdgIdle /\ GuiIdle /\ ConIdle
  /\ sess = [state |-> "running", runs |-> [r \in 1..NumRuns |-> NoRun], sessions |-> <<>>]

\* run_annotate is called: asyncio.run(run_annotate_async(...))
CallRunAnnotate(r) ==
  /\ sess.runs[r].pc = "idle"
  /\ sess' = [sess EXCEPT !.runs[r].pc = "get_engine"]

\* lines 1138-1139: engine = await get_engine(engine_path, threads)
GetEngine(r) ==
  /\ sess.runs[r].pc = "get_engine"
  /\ LET res == get_engine(sess.sessions, r) IN
       sess' = [sess EXCEPT !.sessions = res.sessions,
                            !.runs[r].engine = res.engine,
                            !.runs[r].pc = "loop"]

\* the loop over the games of the file takes the next game
NextGame(r) ==
  /\ sess.runs[r].pc = "loop" /\ sess.runs[r].game < MaxSessGames
  /\ sess' = [sess EXCEPT !.runs[r].game = @ + 1, !.runs[r].reqs = 0,
                          !.runs[r].pc = "game"]

\* judge_move: await engine.analyse(...) sends the request and suspends
IssueRequest(r) ==
  /\ sess.runs[r].pc = "game" /\ sess.runs[r].reqs < MaxSessReqs
  /\ sess' = [sess EXCEPT !.sessions[sess.runs[r].engine].outstanding = @ + 1,
                          !.runs[r].reqs = @ + 1,
                          !.runs[r].pc = "awaiting"]

\* the request returns or fails; the coroutine goes on with the game, or the
\* failure ends the game
RequestEnds(r) ==
  /\ sess.runs[r].pc = "awaiting"
  /\ \E goes_on \in BOOLEAN :
       sess' = [sess EXCEPT !.sessions[sess.runs[r].engine].outstanding = @ - 1,
                            !.runs[r].pc = IF goes_on THEN "game" ELSE "loop"]

\* analyze_game returns
GameEnds(r) ==
  /\ sess.runs[r].pc = "game"
  /\ sess' = [sess EXCEPT !.runs[r].pc = "loop"]

\* lines 1184-1185: the file is exhausted; await engine.quit()
QuitEngine(r) ==
  /\ sess.runs[r].pc = "loop"
  /\ sess' = [sess EXCEPT !.sessions[sess.runs[r].engine].quit = TRUE,
                          !.runs[r].pc = "done"]

SessionsNext ==
  \E r \in 1..NumRuns :
    /\ \/ CallRunAnnotate(r) \/ GetEngine(r) \/ NextGame(r) \/ IssueRequest(r)
       \/ RequestEnds(r) \/ GameEnds(r) \/ QuitEngine(r)
    /\ UNCHANGED <<coreVars, acp, jdg, gui, con>>

SpecSessions == SessionsInit /\ [][SessionsNext]_vars

\* ------------------------------------------- GameListView analysis workers
\* The window of game_list_gui.py: the rows selected in the tree, the
\* 'Analyze Selected' button, the worker threads started and the
\* _update_status_final callbacks the workers have posted to the GUI thread
\* with top.after(0, ...).  A worker analyses its games in the order of the
\* tree, one run_annotate call per game; the output file of a game is named
\* after its players, so it is identified by the row.
NumListed == 2        \* rows of the list
MaxWorkers == 2       \* worker threads started while the window is open

\* the row a worker takes next
NextRow(todo) == CHOOSE g \in todo : \A h \in todo : g <= h

\* the thread the handler started for the selection
NewWorker(selected_item_ids) ==
  [todo |-> selected_item_ids, cur |-> 0, pc |-> "loop"]

\* _start_analysis_process, lines 73-91
start_analysis_process(g) ==
  IF g.selection = {} THEN g
  ELSE [g EXCEPT !.button = "disabled",
                 !.workers = Append(@, NewWorker(g.selection))]

WorkersInit ==
  /\ CoreIdle /\ AcpIdle /\ JdgIdle /\ SessIdle /\ ConIdle
  /\ gui = [state |-> "open", selection |-> {}, button |-> "normal",
            workers |-> <<>>, finals |-> 0]

\* the user changes the selection in the tree
SelectRows ==
  /\ \E s \in SUBSET (1..NumListed) :
       /\ s # gui.selection
       /\ gui' = [gui EXCEPT !.selection = s]

\* the button is clicked; a disabled button does not call its command
ClickAnalyzeSelected ==
  /\ gui.button = "normal"
  /\ Len(gui.workers) < MaxWorkers
  /\ gui' = start_analysis_process(gui)

\* a right click on a row selects it and shows the context menu
\* (_show_context_menu), and the user chooses 'Analyze Game', whose command
\* is the same handler
ContextAnalyzeGame ==
  /\ Len(gui.workers) < MaxWorkers
  /\ \E row \in 1..NumListed :
       gui' = start_analysis_process([gui EXCEPT !.selection = {row}])

\* worker w begins core.run_annotate for its next game
WorkerBegins(w) ==
  /\ gui.workers[w].pc = "loop" /\ gui.workers[w].todo # {}
  /\ gui' = [gui EXCEPT !.workers[w].cur = NextRow(gui.workers[w].todo),
                        !.workers[w].pc = "run_annotate"]

\* run_annotate returns
WorkerReturns(w) ==
  /\ gui.workers[w].pc = "run_annotate"
  /\ gui' = [gui EXCEPT !.workers[w].todo = @ \ {gui.workers[w].cur},
                        !.workers[w].cur = 0,
                        !.workers[w].pc = "loop"]

\* line 137: the loop is over; the worker posts _update_status_final and ends
WorkerEnds(w) ==
  /\ gui.workers[w].pc = "loop" /\ gui.workers[w].todo = {}
  /\ gui' = [gui EXCEPT !.workers[w].pc = "ended", !.finals = @ + 1]

\* the GUI thread runs a posted _update_status_final
UpdateStatusFinal ==
  /\ gui.finals > 0
  /\ gui' = [gui EXCEPT !.finals = @ - 1, !.button = "normal"]

WorkersNext ==
  /\ \/ SelectRows \/ ClickAnalyzeSelected \/ ContextAnalyzeGame
     \/ UpdateStatusFinal
     \/ \E w \in 1..Len(gui.workers) :
          WorkerBegins(w) \/ WorkerReturns(w) \/ WorkerEnds(w)
  /\ UNCHANGED <<coreVars, acp, jdg, sess, con>>

SpecWorkers == WorkersInit /\ [][WorkersNext]_vars

\* ---------------------------------------------------------- ConsoleRedirect
\* ConsoleRedirect of annotator_gui.py: threads that print or log call write
\* (emit calls write), the Tk main loop runs the process_queue callbacks
\* that write scheduled with text_widget.after(0, ...).  list.append and
\* list.pop(0) are atomic; a thread can be preempted between the append and
\* the after call of write.
Writers == {"t1", "t2"}     \* threads that print or log
MaxWrites == 2              \* strings a thread writes

\* the k-th string thread w passes to write
Msg(w, k) == <<w, k>>
Msgs == {Msg(w, k) : w \in Writers, k \in 1..MaxWrites}

\* a process_queue that takes the newest message
pop_last(queue) ==
  [message |-> queue[Len(queue)], queue |-> SubSeq(queue, 1, Len(queue) - 1)]

\* message = self.queue.pop(0)
pop_first(queue) == [message |-> Head(queue), queue |-> Tail(queue)]

ConsoleInit ==
  /\ CoreIdle /\ AcpIdle /\ JdgIdle /\ SessIdle /\ GuiIdle
  /\ con = [state |-> "redirected",
            queue |-> <<>>,        \* self.queue
            text |-> <<>>,         \* the strings inserted in the Text widget
            callbacks |-> 0,       \* process_queue calls scheduled, not yet run
            mainloop |-> "idle",   \* "process_queue" while the callback runs
            writer |-> [w \in Writers |-> [pc |-> "idle", written |-> 0]],
            passed |-> <<>>]       \* the strings passed to write, in queue order

\* write, line 44: self.queue.append(s); sys.stdout and the logger reach
\* write only while the output is redirected
WriteAppend(w) ==
  /\ con.state = "redirected"
  /\ con.writer[w].pc = "idle" /\ con.writer[w].written < MaxWrites
  /\ LET s == Msg(w, con.writer[w].written + 1) IN
       con' = [con EXCEPT !.queue = Append(@, s),
                          !.passed = Append(@, s),
                          !.writer[w].written = @ + 1,
                          !.writer[w].pc = "appended"]

\* write, line 47: self.text_widget.after(0, self.process_queue)
WriteSchedule(w) ==
  /\ con.writer[w].pc = "appended"
  /\ con' = [con EXCEPT !.callbacks = @ + 1, !.writer[w].pc = "idle"]

\* redirect_output_stop: sys.stdout restored, the handler removed
RedirectStop ==
  /\ con.state = "redirected"
  /\ con' = [con EXCEPT !.state = "stopped"]

\* the main loop calls a scheduled process_queue
ProcessQueueCalled ==
  /\ con.mainloop = "idle" /\ con.callbacks > 0
  /\ con' = [con EXCEPT !.callbacks = @ - 1, !.mainloop = "process_queue"]

\* one turn of the loop of process_queue: pop(0) and insert at the end
ProcessQueueInsert ==
  /\ con.mainloop = "process_queue" /\ con.queue # <<>>
  /\ LET p == pop_first(con.queue) IN
       con' = [con EXCEPT !.queue = p.queue, !.text = Append(@, p.message)]

\* the queue is empty: process_queue returns
ProcessQueueReturns ==
  /\ con.mainloop = "process_queue" /\ con.queue = <<>>
  /\ con' = [con EXCEPT !.mainloop = "idle"]

MainLoop == ProcessQueueCalled \/ ProcessQueueInsert \/ ProcessQueueReturns

ConsoleNext ==
  /\ \/ \E w \in Writers : WriteAppend(w) \/ WriteSchedule(w)
     \/ RedirectStop
     \/ MainLoop
  /\ UNCHANGED <<coreVars, acp, jdg, sess, gui>>

SpecConsole == ConsoleInit /\ [][ConsoleNext]_vars

\* The Tk main loop keeps running its callbacks and a thread that has
\* appended goes on to its after call.
SpecConsoleLive ==
  /\ SpecConsole
  /\ WF_vars(MainLoop /\ UNCHANGED <<coreVars, acp, jdg, sess, gui>>)
  /\ \A w \in Writers :
       WF_vars(WriteSchedule(w) /\ UNCHANGED <<coreVars, acp, jdg, sess, gui>>)

\* ================================================================ properties

\* the pipeline is past Clean and has not dropped the game
InPipeline ==
  \/ pc \in {"classify", "pass1", "pass1b", "pass2", "pass2b"}
  \/ pc = "write" /\ analyzed_game = Str("pgn")

\* node i has a side line attached at its parent
HasSideline(i) == Len(tree[i - 1].variations) > 1

\* C1: in Pass2 a ply flagged by Pass1 and flagged again by the re-judgment
\* carries the committed annotation (the played move's evaluation as its
\* comment, the engine's line as a side line of its parent with the end
\* comment, the glyphs of its severity class); a ply the re-judgment no
\* longer flags has no comment, no glyph and no side line; and after Clean a
\* node carries a glyph or a side line only if both passes flagged it.
C1_Pass2CommitsOrClears ==
  \A i \in 1..MaxPly :
    i \in DOMAIN tree =>
      /\ flag2[i] # "none" => flag1[i] = "yes"
      /\ flag2[i] = "yes" =>
           /\ tree[i].comment = commit[i].playedcomment
           /\ tree[i].nags = get_nags(commit[i])
           /\ tree[i - 1].variations =
                <<MainChild(i), SideLine(commit[i].pv, var_end_comment(commit[i]))>>
           /\ commit[i].pv[1] = commit[i].bestmove
      /\ flag2[i] = "no" =>
           /\ tree[i].comment = None
           /\ tree[i].nags = {}
           /\ ~HasSideline(i)
      /\ (InPipeline /\ (tree[i].nags # {} \/ HasSideline(i)))
           => (flag1[i] = "yes" /\ flag2[i] = "yes")

\* C1 witness: a game is returned in which one ply was committed and another
\* was flagged by Pass1 and cleared by Pass2
C1_Witness ==
  /\ pc = "write" /\ analyzed_game = Str("pgn")
  /\ \E i, k \in DOMAIN tree \ {0} : flag2[i] = "yes" /\ flag2[k] = "no"

JmFinished == jm.state \in {"returned", "raised"}

\* C2 as stated: whenever the played move is the first move of the principal
\* variation, judge_move issues exactly one analyse request and playedeval =
\* besteval; whenever it differs, exactly two
C2_Original ==
  JmFinished =>
    /\ jm.same = "yes" => (jm.n = 1 /\ jm.eq)
    /\ jm.same = "no" => jm.n = 2

\* C2 amended: the same for the calls whose first analysis carries a score
\* besides the principal variation; and no call issues more than two
\* requests, a played move equal to the best move never a second one
C2_RequestsPerJudgment ==
  /\ jm.n <= 2
  /\ jm.same = "yes" => jm.n <= 1
  /\ (JmFinished /\ jm.scored) =>
       /\ jm.same = "yes" => (jm.n = 1 /\ jm.eq /\ jm.state = "returned")
       /\ jm.same = "no" => jm.n = 2

\* C2 witness: a call with a differing move has finished after two requests
\* and, in the other pass, there was a call for a move equal to the best move
C2_Witness ==
  /\ JmFinished /\ jm.same = "no" /\ jm.n = 2 /\ jm.state = "returned"
  /\ \E i \in DOMAIN tree \ {0} :
       /\ HasKey(tree[i].comment, "bestmove")
       /\ tree[i].comment.bestmove = tree[i].move
       /\ tree[i].comment.playedeval = tree[i].comment.besteval

\* C3: when the engine process exits during an analyse call of judge_move,
\* first or second, judge_move returns the "engine terminated" error record,
\* which differs from the "no principal variation" record, and does not raise
C3_TerminationIsErrorRecord ==
  (JmFinished /\ jm.term) =>
    /\ jm.state = "returned"
    /\ jm.err = ErrTerminated.error
    /\ ErrTerminated.error # ErrNoPV.error

\* a step in which a judge_move call finishes
JudgeFinishes == gameReqs' = gameReqs + 1 /\ jm'.state \in {"returned", "raised"}

\* C4: in the step in which judge_move returns the "no principal variation"
\* record, only that ply is skipped: the pass goes on to the preceding ply,
\* the game is not dropped and no exception leaves the batch loop
C4_NoPVSkipsOnlyThePly ==
  [][(JudgeFinishes /\ jm'.state = "returned" /\ jm'.err = ErrNoPV.error)
       => (pc' \in {"pass1", "pass2"} /\ node' = node - 1 /\ exc' = "")]_vars

\* C5: once the engine process has exited unexpectedly, no further analyse
\* request is made for any ply or game, and the run reports failure
C5_TerminationAbortsRun ==
  engine = "terminated" =>
    /\ ~reqOnTerminated
    /\ (pc = "done" /\ exc # "KeyboardInterrupt") => result = "False"

\* C6: when the run has returned, an engine that was started has been sent
\* quit (or has exited by itself): it is not left running
C6_QuitDeliveredOnEveryExit ==
  pc = "done" => engine # "ready"

\* C7: no analyse request is issued to a session that has terminated
C7_NoRequestAfterTermination == ~reqOnTerminated

\* the game read last was handed to analyze_game and fails checkgame
RejectedGame ==
  /\ processed_count > 0 /\ game.passes /\ valid_engine(enginePath)
  /\ (game.errors \/ game.nply = 0)

\* C8: a game with parse errors or without moves is rejected by ParseCheck:
\* no analyse request is issued for it, its tree stays as parsed, no later
\* stage of the pipeline is entered and no exception ends the batch
C8_ParseCheckRejects ==
  RejectedGame =>
    /\ gameReqs = 0
    /\ tree = ParsedTree(game)
    /\ pc \notin {"clean", "classify", "pass1", "pass1b", "pass2", "pass2b"}
    /\ exc \in {"", "KeyboardInterrupt"}

\* C8 witness: a rejected game is behind and the loop is ready for the next
C8_Witness ==
  RejectedGame /\ game.errors /\ game.dirty /\ pc = "loop" /\ processed_count < MaxGames

\* the records the output file should hold for the outcomes of games 1..k
RECURSIVE ExpectedRecords(_, _)
ExpectedRecords(oc, k) ==
  IF k = 0 THEN <<>>
  ELSE IF oc[k] = "completed"
       THEN Append(ExpectedRecords(oc, k - 1), [game |-> k, text |-> Str("pgn")])
       ELSE ExpectedRecords(oc, k - 1)

\* C9: between games and at the end of the run the output file, truncated
\* once, holds exactly one PGN record per game that passed the filter and
\* whose analysis completed, in input order, and nothing for the others
C9_OutputHoldsCompletedGames ==
  (pc \in {"loop", "quit", "finally", "done"} /\ outfile.truncations > 0) =>
    /\ outfile.truncations = 1
    /\ Len(outcomes) = processed_count
    /\ outfile.records = ExpectedRecords(outcomes, Len(outcomes))

\* needs_annotation has been applied to a judgment with both evaluations
ClassifiedEvals ==
  /\ cflag \in {"True", "False"}
  /\ HasKey(cjudgment, "besteval") /\ HasKey(cjudgment, "playedeval")

\* C10 as stated: a judgment in which the played move's winning chances are
\* at least the best move's is never flagged, however large the difference
C10_Original ==
  (ClassifiedEvals
     /\ winning_chances(cjudgment.playedeval) >= winning_chances(cjudgment.besteval))
    => cflag = "False"

\* C10 amended: such a judgment is flagged exactly when the winning chances
\* differ by more than NEEDS_ANNOTATION_THRESHOLD percentage points
C10_ImprovementFlaggedBeyondThreshold ==
  (ClassifiedEvals
     /\ winning_chances(cjudgment.playedeval) >= winning_chances(cjudgment.besteval))
    => (cflag = "True" <=>
          winning_chances(cjudgment.playedeval) - winning_chances(cjudgment.besteval)
            > NEEDS_ANNOTATION_THRESHOLD * PercentagePoint)

\* C10 witness: an improvement within the threshold was left unflagged
C10_Witness ==
  /\ ClassifiedEvals /\ cflag = "False"
  /\ winning_chances(cjudgment.playedeval) > winning_chances(cjudgment.besteval)

\* C11 as stated: a judgment whose played evaluation is below the best
\* evaluation is always flagged
C11_Original ==
  (ClassifiedEvals /\ cjudgment.playedeval < cjudgment.besteval) => cflag = "True"

\* C11 amended: a judgment whose played move has strictly lower winning
\* chances than the best move is flagged, also when the difference is within
\* the threshold; this covers every judgment with playedeval < besteval whose
\* evaluations lie within MAX_CPL centipawns of zero
C11_StrictLossFlagged ==
  ClassifiedEvals =>
    /\ winning_chances(cjudgment.playedeval) < winning_chances(cjudgment.besteval)
         => cflag = "True"
    /\ (/\ cjudgment.playedeval < cjudgment.besteval
        /\ Abs(cjudgment.playedeval) <= MAX_CPL
        /\ Abs(cjudgment.besteval) <= MAX_CPL) => cflag = "True"

\* C11 witness: a loss of winning chances within the threshold was flagged
C11_Witness ==
  /\ ClassifiedEvals /\ cflag = "True"
  /\ winning_chances(cjudgment.playedeval) < winning_chances(cjudgment.besteval)
  /\ winning_chances(cjudgment.besteval) - winning_chances(cjudgment.playedeval)
       <= NEEDS_ANNOTATION_THRESHOLD * PercentagePoint

\* C12: needs_annotation returns false for every judgment that lacks besteval
\* or playedeval: None, a dictionary without one of them, an error record of
\* judge_move, the skip marker of Pass1
C12_MissingEvalNotFlagged ==
  (cflag \in {"True", "False"}
     /\ ~(HasKey(cjudgment, "besteval") /\ HasKey(cjudgment, "playedeval")))
    => cflag = "False"

\* C12 witness: needs_annotation has answered for the skip marker
C12_Witness == cflag = "False" /\ cjudgment = SkipMarker
\* get_nags has been applied to a judgment with both evaluations
SeverityClassified ==
  /\ snags.state = "returned"
  /\ HasKey(sjudgment, "besteval") /\ HasKey(sjudgment, "playedeval")

SeverityDelta == sjudgment.playedeval - sjudgment.besteval

\* C13: with delta = playedeval - besteval, get_nags gives BLUNDER for
\* delta < -200, MISTAKE for -200 <= delta < -100, DUBIOUS for
\* -100 <= delta < -30 and none of the three for delta >= -30
C13_SeverityThresholdsStrict ==
  SeverityClassified =>
    /\ SeverityDelta < -200 => snags.nags = {NAG_BLUNDER}
    /\ (-200 <= SeverityDelta /\ SeverityDelta < -100) => snags.nags = {NAG_MISTAKE}
    /\ (-100 <= SeverityDelta /\ SeverityDelta < -30) => snags.nags = {NAG_DUBIOUS_MOVE}
    /\ -30 <= SeverityDelta
         => snags.nags \cap {NAG_BLUNDER, NAG_MISTAKE, NAG_DUBIOUS_MOVE} = {}

\* C13 witness: besteval 100, playedeval -150 has been classified a blunder
C13_Witness ==
  /\ SeverityClassified /\ snags.nags = {NAG_BLUNDER}
  /\ sjudgment.besteval = 100 /\ sjudgment.playedeval = -150

\* C14: for delta >= -30 the class is BRILLIANT only when the played
\* evaluation exceeds the best by more than 50 centipawns, GOOD when it
\* exceeds it by 1 to 50 centipawns, and NONE when playedeval <= besteval
C14_GoodUpToHalfAPawn ==
  (SeverityClassified /\ SeverityDelta >= -30) =>
    /\ snags.nags = {NAG_BRILLIANT} <=> SeverityDelta > 50
    /\ snags.nags = {NAG_GOOD} <=> (1 <= SeverityDelta /\ SeverityDelta <= 50)
    /\ snags.nags = {} <=> SeverityDelta <= 0
\* the score of result k from the point of view eval_numeric was asked for
PovScore(k) == Pov(eresults[k], eturn)

WinningMate(k) == PovScore(k).kind = "mate" /\ PovScore(k).v > 0

\* C15: eval_numeric maps a mate in n for the point-of-view side to
\* 20000 - |n|, a mate against it to -(20000 - |n|) and a centipawn score to
\* itself; so a winning mate with 0 < n < 18000 is greater than every
\* centipawn result of at most MAX_CPL, and a shorter winning mate is greater
\* than a longer one
C15_MateDominatesCentipawns ==
  enumeric.state = "returned" =>
    /\ \A k \in 1..2 :
         /\ WinningMate(k)
              => enumeric.out[k] = [raised |-> FALSE, val |-> 20000 - PovScore(k).v]
         /\ (PovScore(k).kind = "mate" /\ PovScore(k).v < 0)
              => enumeric.out[k] = [raised |-> FALSE, val |-> 0 - (20000 + PovScore(k).v)]
         /\ PovScore(k).kind = "cp"
              => enumeric.out[k] = [raised |-> FALSE, val |-> PovScore(k).v]
    /\ (WinningMate(1) /\ PovScore(1).v < 18000
          /\ PovScore(2).kind = "cp" /\ PovScore(2).v <= MAX_CPL)
         => enumeric.out[1].val > enumeric.out[2].val
    /\ (WinningMate(1) /\ WinningMate(2) /\ PovScore(1).v < PovScore(2).v)
         => enumeric.out[1].val > enumeric.out[2].val

\* C15 witness: the longest winning mate, reported from the other side's
\* point of view, has been compared with the largest centipawn score
C15_Witness ==
  /\ enumeric.state = "returned"
  /\ eresults[1].turn # eturn
  /\ eresults[1].score = Mate(-17999) /\ PovScore(2) = Cp(MAX_CPL)
  /\ enumeric.out[1].val > enumeric.out[2].val

\* C16: eval_numeric raises when the result carries no score, and returns 0
\* only for a centipawn score of exactly 0
C16_ZeroOnlyForCentipawnZero ==
  enumeric.state = "returned" =>
    \A k \in 1..2 :
      /\ eresults[k].score = NoScore => enumeric.out[k].raised
      /\ (~enumeric.out[k].raised /\ enumeric.out[k].val = 0)
           => eresults[k].score = Cp(0)

\* C17: for a mate at distance p >= 1, for either side, eval_human returns
\* "Mate in m" with m = ceil(p / 2)
C17_MateInCeilHalf ==
  ehuman.state = "returned" =>
    \A k \in 1..2 :
      (eresults[k].score.kind = "mate" /\ Abs(eresults[k].score.v) >= 1)
        => ehuman.out[k] =
             [Str("Mate in {}") EXCEPT !.n = (Abs(eresults[k].score.v) + 1) \div 2]
\* C18: total = gametime * 60, pass1_budget = total / 10, pass2_budget =
\* total - pass1_budget, the time per move is pass1_budget / ply_count in
\* Pass1 (60 for no plies) and pass2_budget / flagged count in Pass2; one
\* minute and 20 plies give 6 s and 0.3 s per move, 4 flagged plies 13.5 s
C18_BudgetArithmetic ==
  /\ btime.pc \in {"pass1", "pass2"} =>
       /\ btime.budget = bargs.arg_gametime * 60
       /\ btime.pass1_budget * 10 = btime.budget
  /\ btime.pc = "pass1" =>
       /\ bargs.ply_count > 0
            => FracEq(btime.time_per_move, btime.pass1_budget, bargs.ply_count)
       /\ bargs.ply_count = 0 => FracEq(btime.time_per_move, 60, 1)
       /\ (bargs.arg_gametime = 1 /\ bargs.ply_count = 20)
            => (btime.pass1_budget = 6 /\ FracEq(btime.time_per_move, 3, 10))
  /\ btime.pc = "pass2" =>
       /\ btime.pass2_budget = btime.budget - btime.pass1_budget
       /\ btime.pass1_budget + btime.pass2_budget = btime.budget
       /\ bargs.error_count > 0
            => FracEq(btime.time_per_move, btime.pass2_budget, bargs.error_count)
       /\ (bargs.arg_gametime = 1 /\ bargs.error_count = 4)
            => FracEq(btime.time_per_move, 27, 2)

\* C18 witness: one minute, 20 plies, 4 of them flagged: Pass2 has 13.5 s
C18_Witness ==
  /\ btime.pc = "pass2"
  /\ bargs = [arg_gametime |-> 1, ply_count |-> 20, error_count |-> 4]
  /\ btime.pass2_budget = 54 /\ FracEq(btime.time_per_move, 27, 2)
\* the game read last is inside analyze_game or has just left it
InAnalysis ==
  pc \in {"parsecheck", "clean", "classify", "pass1", "pass1b", "pass2", "pass2b", "write"}

\* the main line of a tree: the moves reached by following first children,
\* each with the main-line node it leads to (0 for a move of a side line)
RECURSIVE MainLineFrom(_, _)
MainLineFrom(t, i) ==
  IF t[i].variations = <<>> THEN <<>>
  ELSE LET c == t[i].variations[1] IN
       IF c.main = 0 THEN [k \in 1..Len(c.line) |-> [move |-> c.line[k], node |-> 0]]
       ELSE <<[move |-> t[c.main].move, node |-> c.main]>> \o MainLineFrom(t, c.main)

MainLine(t) == MainLineFrom(t, 0)

\* C19: in every state of analyze_game the main line of the tree is the main
\* line of the parsed game, move for move and node for node, and the first
\* child of every node before the last is its main-line successor: a side
\* line is only ever added behind it
C19_MainLinePreserved ==
  InAnalysis =>
    /\ DOMAIN tree = 0..game.nply
    /\ MainLine(tree) = MainLine(ParsedTree(game))
    /\ Len(MainLine(tree)) = game.nply
    /\ \A i \in 0..game.nply :
         /\ tree[i].move = ParsedTree(game)[i].move
         /\ i < game.nply =>
              (tree[i].variations # <<>> /\ tree[i].variations[1] = MainChild(i + 1))

\* C19 witness: a game that came with side lines is returned with an engine
\* side line attached next to a main-line move
C19_Witness ==
  /\ pc = "write" /\ analyzed_game = Str("pgn") /\ game.dirty
  /\ game.nply = MaxPly
  /\ \E i \in 1..game.nply : flag2[i] = "yes" /\ HasSideline(i)

\* a tree without comments, glyphs and side lines
CleanTree(t) ==
  \A i \in DOMAIN t :
    /\ t[i].comment = None
    /\ t[i].nags = {}
    /\ Len(t[i].variations) <= 1
    /\ \A k \in 1..Len(t[i].variations) : t[i].variations[k].main # 0

\* C20: clean_game of any tree the pipeline holds, annotated or not, is a
\* clean tree, cleaning it again changes nothing, and a tree that is clean
\* already is returned unchanged; the tree analyze_game holds after Clean is
\* clean, and is the parsed tree if that carried no annotations
C20_CleanGameIdempotent ==
  InAnalysis =>
    /\ CleanTree(clean_game(tree))
    /\ clean_game(clean_game(tree)) = clean_game(tree)
    /\ CleanTree(tree) => clean_game(tree) = tree
    /\ pc = "classify" =>
         /\ CleanTree(tree)
         /\ ~game.dirty => tree = ParsedTree(game)

\* C20 witness: a game that came with comments, glyphs and side lines has
\* been cleaned
C20_Witness ==
  /\ pc = "classify" /\ game.dirty /\ game.nply = MaxPly
  /\ ~CleanTree(ParsedTree(game)) /\ CleanTree(tree)
\* the side line add_annotation has attached
AttachedLine == trunc.variations[Len(trunc.variations)].line

\* C21: the attached side line begins with the engine's best move, the first
\* move of its principal variation; it is the first 10 half-moves of that
\* variation, or all of it when playing all of it ends the game
C21_SidelineIsTruncatedPV ==
  trunc.state = "attached" =>
    /\ trunc.variations[1] = MainChild(1)
    /\ Len(trunc.variations) = 2
    /\ AttachedLine[1] = trunc.pv[1]
    /\ trunc.ends_game => AttachedLine = trunc.pv
    /\ ~trunc.ends_game =>
         /\ Len(AttachedLine) = Min(Len(trunc.pv), 10)
         /\ \A k \in 1..Len(AttachedLine) : AttachedLine[k] = trunc.pv[k]

\* C21 witness: a line of 12 half-moves that does not end the game has been
\* attached with its first 10
C21_Witness ==
  /\ trunc.state = "attached" /\ ~trunc.ends_game
  /\ Len(trunc.pv) = 12 /\ Len(AttachedLine) = 10
\* C22: for a file of N records, each beginning with an '[Event ' line,
\* pgn_text_iterator yields N non-empty strings in file order; the i-th
\* begins with the '[Event ' line of record i and holds the lines of that
\* record (less the white space at its end) and of no other; the last record
\* is yielded at the end of the file
C22_OneStringPerRecord ==
  (seg.state = "done" /\ seg.preamble = <<>>) =>
    /\ Len(seg.yielded) = Len(seg.bodies)
    /\ \A i \in 1..Len(seg.yielded) :
         /\ seg.yielded[i] # <<>>
         /\ seg.yielded[i][1] = Line(i, "event")
         /\ seg.yielded[i] = RStrip(Record(i, seg.bodies[i]))
         /\ \A k \in 1..Len(seg.yielded[i]) : seg.yielded[i][k].rec = i

\* C22 witness: a file of two records has been read to its end, the second
\* record ending with the file, and the second string has been yielded
C22_Witness ==
  /\ seg.state = "done" /\ seg.preamble = <<>>
  /\ Len(seg.bodies) = 2 /\ seg.bodies[2] = <<"tag", "blank", "moves">>
  /\ Len(seg.yielded) = 2

\* matches_filter has answered for a filter made of clauses
ClauseFiltered ==
  /\ filt.state = "returned"
  /\ filt.filter_string \notin {<<"I", "n", "t", "e", "r", "e", "s", "t", "i", "n", "g">>, <<"G", "e", "e", "n">>, <<>>}

\* the Key:Value clauses of the filter: its semicolon-separated parts that
\* hold a colon, as key and comma-separated values
FilterClauses ==
  LET parts == StripNonEmpty(split(filt.filter_string, ";"))
  IN { [key |-> strip(split1(parts[k], ":")[1]),
        values |-> StripNonEmpty(split(strip(split1(parts[k], ":")[2]), ","))] :
         k \in {j \in 1..Len(parts) : In(<<":">>, parts[j])} }

\* the value of the header whose name is n but for letter case, "" if none
HeaderIgnoringCase(n) ==
  IF \E h \in DOMAIN filt.headers : lower(h) = lower(n)
  THEN filt.headers[CHOOSE h \in DOMAIN filt.headers : lower(h) = lower(n)]
  ELSE <<>>

HeaderAsSpelled(n) == IF n \in DOMAIN filt.headers THEN filt.headers[n] ELSE <<>>

ExactKeys == {<<"r", "e", "s", "u", "l", "t">>, <<"r", "o", "u", "n", "d">>, <<"d", "a", "t", "e">>, <<"e", "c", "o">>}

GameResult == HeaderAsSpelled(<<"R", "e", "s", "u", "l", "t">>)

\* C24: with the filter value "Interesting" every game with a draw, an
\* unfinished ('*') or a missing result is rejected: only a game with the
\* result 1-0 or 0-1 is accepted
C24_InterestingIsDecisive ==
  (filt.state = "returned" /\ filt.filter_string = <<"I", "n", "t", "e", "r", "e", "s", "t", "i", "n", "g">> /\ filt.accepted)
    => GameResult \in {<<"1", "-", "0">>, <<"0", "-", "1">>}

\* C25: in the text returned by change_nags no line is longer than 80
\* characters
C25_NoLineOver80 ==
  wrap.state = "returned" =>
    LET out == split(wrap.out, "\n") IN
    \A k \in 1..Len(out) : Len(out[k]) <= 80
\* C26: when the engine cannot be started (executable missing or not
\* executable) the run ends at start-up: no game is read or processed, the
\* output file is neither truncated nor written, no engine session exists so
\* none is sent quit, and run_annotate returns False
C26_EngineStartFailureAborts ==
  enginePath \in {"missing", "not executable"} =>
    /\ pc \in {"start", "finally", "done"}
    /\ processed_count = 0 /\ outcomes = <<>> /\ gameReqs = 0
    /\ outfile = [truncations |-> 0, records |-> <<>>]
    /\ engine = "none"
    /\ pc # "start" => exc \in {"FileNotFoundError", "PermissionError"}
    /\ pc = "done" => result = "False"

\* C26 witness: a run whose engine executable is missing has returned
C26_Witness == pc = "done" /\ enginePath = "missing" /\ result = "False"
\* C27 as stated: winning_chances(0) is 50, a larger evaluation has strictly
\* larger winning chances, and every value lies strictly between 0 and 100,
\* the normalized mate scores included
C27_Original ==
  chances.state = "returned" =>
    /\ chances.a = 0 => chances.wa = 50 * PercentagePoint
    /\ chances.a < chances.b => chances.wa < chances.wb
    /\ 0 < chances.wa /\ chances.wa < 100 * PercentagePoint

\* C27 amended: winning_chances(0) is 50; a larger evaluation never has
\* smaller winning chances, and has strictly larger ones when either
\* evaluation is within MAX_CPL + 1 centipawns of zero; every value lies in
\* [0, 100], strictly inside for evaluations within MAX_CPL + 1 of zero, and
\* is exactly 0 or 100 for the normalized mate scores
C27_ChancesMonotoneBounded ==
  chances.state = "returned" =>
    LET Moderate(cp) == -(MAX_CPL + 1) <= cp /\ cp <= MAX_CPL + 1 IN
    /\ chances.a = 0 => chances.wa = 50 * PercentagePoint
    /\ chances.a < chances.b => chances.wa <= chances.wb
    /\ (chances.a < chances.b /\ (Moderate(chances.a) \/ Moderate(chances.b)))
         => chances.wa < chances.wb
    /\ 0 <= chances.wa /\ chances.wa <= 100 * PercentagePoint
    /\ Moderate(chances.a) => (0 < chances.wa /\ chances.wa < 100 * PercentagePoint)
    /\ chances.a >= MAX_CP_SCORE - MAX_CPL => chances.wa = 100 * PercentagePoint
    /\ chances.a <= -(MAX_CP_SCORE - MAX_CPL) => chances.wa = 0

\* C27 witness: the chances of a mate score and of a small evaluation were
\* computed
C27_Witness ==
  /\ chances.state = "returned"
  /\ chances.a = 30 /\ chances.b = 19999
  /\ chances.wa < chances.wb /\ chances.wb = 100 * PercentagePoint
\* the plies Pass1 flagged, the plies each pass began a judge_move call for
Flagged == {i \in 1..MaxPly : flag1[i] = "yes"}
Judged1 == {i \in 1..MaxPly : judged[1][i] > 0}
Rejudged == {i \in 1..MaxPly : judged[2][i] > 0}

\* analyze_game is in one of its passes or has just returned
InPasses == pc \in {"pass1", "pass1b", "pass2", "pass2b", "write"}

\* analyze_game has returned the annotated game: both passes ran to their end
PassesComplete == pc = "write" /\ analyzed_game = Str("pgn")

\* C28: Pass2 re-judges exactly the plies Pass1 flagged: it begins at most
\* one judge_move call per ply and only for flagged plies, every flagged ply
\* it has walked past was re-judged and every other one has its working
\* annotation cleared, engine requests are made inside judge_move calls only,
\* and when Pass2 has run to its end the number of its judge_move calls is
\* the flagged count of Pass1
C28_Pass2RejudgesFlagged ==
  /\ \A i \in 1..MaxPly : judged[2][i] <= 1
  /\ Rejudged \subseteq Flagged
  /\ InPasses => error_count = Cardinality(Flagged)
  /\ gameReqs <= 2 * (Cardinality(Judged1) + Cardinality(Rejudged))
  /\ pc = "pass2" =>
       \A i \in (node + 1)..game_end(tree) :
         /\ i \in Flagged => i \in Rejudged
         /\ i \notin Flagged => (tree[i].comment = None /\ flag2[i] = "none")
  /\ PassesComplete =>
       /\ Rejudged = Flagged
       /\ Cardinality(Rejudged) = error_count
       /\ \A i \in (root_node + 1)..game_end(tree) :
            i \notin Flagged => (tree[i].comment = None /\ flag2[i] = "none")

\* C28 witness: a game is returned in which Pass2 re-judged the one flagged
\* ply and cleared, without a call, a ply Pass1 had judged and not flagged
C28_Witness ==
  /\ PassesComplete
  /\ \E i, k \in DOMAIN tree \ {0} :
       /\ flag1[i] = "yes" /\ judged[2][i] = 1
       /\ flag1[k] = "no" /\ judged[2][k] = 0 /\ tree[k].comment = None

\* C29: when judge_move raises an engine protocol error in Pass1 the game is not
\* dropped, the ply holds the skip marker and is not counted as flagged,
\* Pass1 goes on with the preceding ply; Pass2 begins no judge_move call for
\* the ply, and in the returned game it has no comment, glyph or side line
C29_EngineErrorSkipsPly ==
  /\ (jm.state = "raised" /\ jm.pass = 1 /\ jm.exc = "EngineError") =>
       /\ Len(outcomes) = processed_count => outcomes[Len(outcomes)] = "completed"
       /\ pc = "pass1" =>
            (node < game_end(tree) /\ flag1[node + 1] = "skipped"
               /\ tree[node + 1].comment = SkipMarker)
  /\ \A i \in DOMAIN tree \ {0} :
       flag1[i] = "skipped" =>
         /\ pc \in {"pass1", "pass1b"} => tree[i].comment = SkipMarker
         /\ i \notin Flagged
         /\ InPasses => error_count = Cardinality(Flagged)
         /\ judged[2][i] = 0 /\ flag2[i] = "none"
         /\ tree[i].nags = {} /\ ~HasSideline(i)
         /\ PassesComplete => tree[i].comment = None

\* C29 witness: a game is returned one ply of which was skipped in Pass1 for
\* a protocol error of the live engine
C29_Witness ==
  /\ PassesComplete /\ engine = "ready"
  /\ \E i \in DOMAIN tree \ {0} : flag1[i] = "skipped" /\ tree[i].comment = None

\* the latest main-line node whose position the opening database holds
LatestMatch == CHOOSE m \in ecoMatches : \A k \in ecoMatches : k <= m

\* C30: the boundary is the latest main-line node whose position matches the
\* opening database, the root when none matches or the game is a variant;
\* judge_move is called, and the engine asked, only for plies after the
\* boundary; a Pass1 that ran to its end judged every ply after the boundary,
\* and their number is the ply count classify_opening returned
C30_JudgedAfterBoundary ==
  /\ root_node = IF game.standard /\ ecoMatches # {} THEN LatestMatch ELSE 0
  /\ \A i \in Judged1 \cup Rejudged : i > root_node /\ i <= game_end(tree)
  /\ gameReqs > 0 => Judged1 # {}
  /\ pc \in {"pass1b", "pass2b"} => node > root_node
  /\ (pc \in {"pass2", "pass2b"} \/ PassesComplete) =>
       /\ Judged1 = (root_node + 1)..game_end(tree)
       /\ \A i \in Judged1 : judged[1][i] = 1
       /\ ply_count = Cardinality(Judged1)

\* C30 witness: a game is returned whose opening was classified at its first
\* ply; the second ply was judged, the first was not
C30_Witness ==
  /\ PassesComplete /\ game.standard /\ ecoMatches = {1}
  /\ root_node = 1 /\ ply_count = 1 /\ Judged1 = {2}
\* the plies after the boundary that one side played and that hold both
\* evaluations (White plays the odd plies)
SidePlies(white) ==
  {i \in (acp.root_node + 1)..AcplPly :
     /\ (i % 2 = 1) = white
     /\ acp.tree[i].comment.kind = "dict"
     /\ {"besteval", "playedeval"} \subseteq DOMAIN acp.tree[i].comment}

\* the centipawn loss of ply i under the ceiling
CappedLoss(i) ==
  LET d == acp.tree[i].comment.besteval - acp.tree[i].comment.playedeval
  IN IF d > MAX_CPL THEN MAX_CPL ELSE d

RECURSIVE TotalLoss(_)
TotalLoss(S) ==
  IF S = {} THEN 0
  ELSE LET i == CHOOSE k \in S : TRUE IN CappedLoss(i) + TotalLoss(S \ {i})

\* a is the mean loss over the plies S rounded to an integer; 0 for no ply
IsRoundedMean(a, S) ==
  IF S = {} THEN a = 0
  ELSE /\ 2 * (TotalLoss(S) - a * Cardinality(S)) <= Cardinality(S)
       /\ 2 * (a * Cardinality(S) - TotalLoss(S)) <= Cardinality(S)

\* C31: each side's ACPL header is the rounded mean, over that side's own
\* plies after the boundary that hold both evaluations, of
\* min(besteval - playedeval, MAX_CPL); it is at most MAX_CPL, and 0 for a
\* side without such a ply
C31_AcplPerSideCapped ==
  acp.state = "returned" =>
    /\ acp.headers.acpl
    /\ IsRoundedMean(acp.headers.white, SidePlies(TRUE))
    /\ IsRoundedMean(acp.headers.black, SidePlies(FALSE))
    /\ acp.headers.white <= MAX_CPL /\ acp.headers.black <= MAX_CPL

\* C31 witness: White lost 30 and more than MAX_CPL centipawns in two plies
\* and has the mean of 30 and MAX_CPL, Black has no evaluated ply
C31_Witness ==
  /\ acp.state = "returned" /\ acp.root_node = 0
  /\ acp.tree[1].comment.kind = "dict" /\ acp.tree[1].comment.besteval = 30
  /\ acp.tree[3].comment.kind = "dict" /\ acp.tree[3].comment.besteval = 19999
  /\ SidePlies(FALSE) = {}
  /\ acp.headers.white = 1015 /\ acp.headers.black = 0
\* the steps from one position of analyze_game to the next
StageSteps ==
  { <<"parsecheck", "clean">>, <<"clean", "classify">>, <<"classify", "pass1">>,
    <<"pass1", "pass1b">>, <<"pass1b", "pass1">>, <<"pass1", "pass2">>,
    <<"pass2", "pass2b">>, <<"pass2b", "pass2">>, <<"pass2", "write">> }

Stages == {"parsecheck", "clean", "classify", "pass1", "pass1b", "pass2", "pass2b"}

\* C32 as stated: the Finalize work, the ACPL headers and the annotator
\* identity, is done only after Pass2 has completed
C32_Original ==
  (InPasses /\ (headers.acpl \/ headers.annotator)) => PassesComplete

\* C32 amended: for every game the stages run in the order ParseCheck,
\* Clean, OpeningClassify, Pass1, Pass2, Finalize, none entered again once
\* left (a game that is dropped or aborted leaves its stage for the writer
\* or the exit); the ACPL headers are computed in the step that ends Pass1,
\* before Pass2 begins; the annotator identity is written in the step that
\* ends Pass2, when the ACPL headers are there
C32_StagesInOrder ==
  [][ /\ (pc \in Stages /\ pc' # pc) =>
           (<<pc, pc'>> \in StageSteps \/ pc' \in {"write", "finally"})
      /\ (pc' \in Stages /\ pc' # pc /\ pc \notin Stages) =>
           (pc = "loop" /\ pc' = "parsecheck")
      /\ (pc = "pass1" /\ pc' = "pass2") => (node = root_node /\ headers'.acpl)
      /\ (headers'.acpl /\ ~headers.acpl) => (pc = "pass1" /\ pc' = "pass2")
      /\ (headers'.annotator /\ ~headers.annotator) =>
           (pc = "pass2" /\ node = root_node /\ pc' = "write" /\ headers.acpl)
      /\ (pc = "pass2" /\ pc' = "write" /\ analyzed_game' = Str("pgn")) =>
           headers'.annotator
    ]_vars

\* C32 witness: a game went through all the stages and is returned with
\* both headers
C32_Witness == PassesComplete /\ headers.acpl /\ headers.annotator
\* judge_move has returned for a played move that is not the engine's best
JudgedOtherMove ==
  /\ jdg.state \in {"returned", "classified"}
  /\ jdg.played_move # jdg.bestmove

\* C33: when the played move differs from the engine's best move,
\* judge_move leaves the position it was given as it was, asks for the
\* second analysis on the position after the played move with the same
\* limit as the first, half the search time, and playedeval is that
\* position's value for its side to move, the opponent of the mover
C33_SecondAnalysisOnCopy ==
  /\ jdg.state \in {"called", "second", "returned", "classified"} =>
       jdg.board = jdg.given
  /\ JudgedOtherMove =>
       /\ Len(jdg.requests) = 2
       /\ jdg.requests[1].position = jdg.given
       /\ jdg.requests[2].position = Push(jdg.given, jdg.played_move)
       /\ jdg.requests[2].position.turn # jdg.given.turn
       /\ jdg.requests[2].limit = jdg.requests[1].limit
       /\ FracEq(jdg.requests[1].limit, jdg.searchtime_s.num, 2 * jdg.searchtime_s.den)
       /\ jdg.judgment.playedeval = jdg.loss - jdg.value
       /\ jdg.judgment.besteval = jdg.value

\* C33 witness: a move that is not the best one was judged in a position
\* that is not level
C33_Witness ==
  /\ JudgedOtherMove
  /\ jdg.value = 100 /\ jdg.loss = 150
  /\ jdg.given = Board(<<"g">>)
  /\ jdg.judgment.playedeval = 50

\* C34 as stated: against a consistent engine playedeval - besteval is
\* negative exactly when the played move is worse for the mover than the
\* best move; a move that loses more than 200 centipawns is classified
\* BLUNDER, never GOOD or BRILLIANT, and its centipawn loss is positive
C34_ComparableOnMoverScale ==
  (jdg.state = "classified" /\ jdg.played_move # jdg.bestmove) =>
    /\ (jdg.judgment.playedeval - jdg.judgment.besteval < 0) <=> (jdg.loss > 0)
    /\ jdg.loss > 200 =>
         /\ jdg.nags = {NAG_BLUNDER}
         /\ jdg.cpl > 0
\* game times, in minutes, a run may be given
Gametimes == {1, 2, 5}

\* n requests of limit `lim` each ask for at most `seconds` in all
WithinBudget(n, lim, seconds) == n * lim.num <= seconds * lim.den

\* the limits analyze_game hands to judge_move in the two passes, for game
\* time g and the ply_count and error_count of the game
Pass1Limit(g) ==
  analysis_limit(get_time_per_move(get_pass1_budget(get_total_budget(g)), ply_count))
Pass2Limit(g) ==
  analysis_limit(
    pass2_time_per_move(
      get_pass2_budget(get_total_budget(g), get_pass1_budget(get_total_budget(g))),
      error_count,
      get_time_per_move(get_pass1_budget(get_total_budget(g)), ply_count)))

SessionsOf(r) == {s \in 1..Len(sess.sessions) : sess.sessions[s].owner = r}

\* C36: on every engine session at most one analyse request is outstanding;
\* a run has one session of its own from get_engine to quit, used for every
\* game, a request is outstanding on it exactly while the run awaits it, and
\* no two runs have the same session
C36_OneRequestPerSession ==
  /\ \A s \in 1..Len(sess.sessions) : sess.sessions[s].outstanding \in 0..1
  /\ \A r \in 1..NumRuns :
       LET run == sess.runs[r] IN
         /\ Cardinality(SessionsOf(r)) <= 1
         /\ run.engine # 0 =>
              /\ SessionsOf(r) = {run.engine}
              /\ sess.sessions[run.engine].outstanding
                   = (IF run.pc = "awaiting" THEN 1 ELSE 0)
              /\ run.pc \in {"game", "awaiting"} => ~sess.sessions[run.engine].quit
         /\ \A q \in 1..NumRuns :
              (q # r /\ run.engine # 0) => sess.runs[q].engine # run.engine

\* C36 witness: two runs await a request at the same time, each on its own
\* session, one of them in its second game
C36_Witness ==
  /\ sess.runs[1].pc = "awaiting" /\ sess.runs[2].pc = "awaiting"
  /\ sess.runs[1].game = 2 /\ sess.runs[1].reqs = 2
  /\ sess.runs[1].engine # sess.runs[2].engine
  /\ sess.sessions[sess.runs[1].engine].outstanding = 1
  /\ sess.sessions[sess.runs[2].engine].outstanding = 1
\* main-line nodes after the opening boundary
AfterBoundary == {i \in 1..MaxPly : i > root_node /\ i <= game_end(tree)}

\* C37: when analyze_game returns the annotated game, no main-line node
\* after the boundary holds what Pass1 stored in its comment (a judgment
\* dictionary, an error dictionary or the skip marker): the comment is
\* empty, or it is the evaluation string of the played move from the Pass2
\* judgment that was committed for the node
C37_NoWorkingAnnotationLeft ==
  PassesComplete =>
    \A i \in AfterBoundary :
      /\ tree[i].comment.kind # "dict"
      /\ tree[i].comment # SkipMarker
      /\ \/ tree[i].comment = None
         \/ /\ flag1[i] = "yes" /\ flag2[i] = "yes"
            /\ HasKey(commit[i], "playedcomment")
            /\ tree[i].comment = commit[i].playedcomment
      /\ flag2[i] # "yes" => tree[i].comment = None

\* C37 witness: a game is returned in which one flagged ply has its
\* committed evaluation, and another, flagged in Pass1 and cleared by the
\* re-judgment, has an empty comment
C37_Witness ==
  /\ PassesComplete
  /\ \E i, k \in AfterBoundary :
       /\ flag1[i] = "yes" /\ flag2[i] = "yes" /\ tree[i].comment.kind = "str"
       /\ flag1[k] = "yes" /\ flag2[k] = "no" /\ tree[k].comment = None
\* the worker threads that have not ended
ActiveWorkers == {w \in 1..Len(gui.workers) : gui.workers[w].pc # "ended"}

\* C38 as stated: in a GameListView at most one analysis worker is active
\* at any time, so no two runs write the same output file at the same time,
\* and the button is enabled only when no worker is still at work
C38_OneWorkerAtATime ==
  /\ Cardinality(ActiveWorkers) <= 1
  /\ \A v, w \in ActiveWorkers :
       (v # w /\ gui.workers[v].pc = "run_annotate" /\ gui.workers[w].pc = "run_annotate")
         => gui.workers[v].cur # gui.workers[w].cur
  /\ gui.button = "normal" => ActiveWorkers = {}
\* s is an element of the sequence q
InSeq(s, q) == \E i \in 1..Len(q) : q[i] = s

\* what was passed to write is, in that order, what was inserted followed by
\* what is queued, and a queued string has a process_queue call ahead of it
ConsoleConsistent ==
  /\ con.text \o con.queue = con.passed
  /\ \A i, k \in 1..Len(con.passed) : (i # k) => con.passed[i] # con.passed[k]
  /\ con.queue # <<>> =>
       \/ con.callbacks > 0
       \/ con.mainloop = "process_queue"
       \/ \E w \in Writers : con.writer[w].pc = "appended"

BoundaryLines(item) == {k \in 1..Len(item) : is_boundary(item[k])}

\* C40 as stated: whatever the file, blank lines or text before the first
\* '[Event ' line included, every string pgn_text_iterator yields is
\* non-empty, begins with an '[Event ' line and holds exactly one such line
C40_EveryItemIsOneRecord ==
  \A i \in 1..Len(seg.yielded) :
    /\ seg.yielded[i] # <<>>
    /\ is_boundary(seg.yielded[i][1])
    /\ Cardinality(BoundaryLines(seg.yielded[i])) = 1
====
